---------------------------- MODULE Spec2Model ----------------------------
(***************************************************************************)
(* Real-time captioning delivery pipeline of VRChat-Interpretor:           *)
(*   - the token bucket of OSCManager (src/osc_manager.py),                *)
(*   - the mute coordinator of main.py (handle_mute_change and the         *)
(*     start/stop helpers it awaits),                                      *)
(*   - the outbound dispatcher OSCManager.send_text with its truncation    *)
(*     and pagination.                                                     *)
(*                                                                         *)
(* The text functions are also called on their own, on small texts.        *)
(* Each part has its own specification over the same variables; the        *)
(* variables of the other parts keep their initial values.                 *)
(***************************************************************************)
EXTENDS Integers, Sequences, FiniteSets, Bags, TLC

VARIABLES
    \* ---- token bucket (OSCManager._tokens, _last_refill_time) ----
    tokens,             \* self._tokens
    last_refill_time,   \* self._last_refill_time, in clock ticks
    now,                \* time.time(), in clock ticks since construction
    successes,          \* history: number of _can_send calls that returned True
    lastCall,           \* history: the last _can_send call
    \* ---- mute coordinator (globals of main.py) ----
    backend,            \* CURRENT_ASR_BACKEND
    mute_delay,         \* MUTE_DELAY_SECONDS: "zero" or "positive"
    recognition_active, \* recognition_active
    recognition_started,\* recognition_started
    mute_delay_task,    \* mute_delay_task: 0 (None) or the index of a task in timers
    timers,             \* every delayed_stop task created so far, in creation order
    awaiting,           \* handler coroutines suspended in a backend call, per await point
    signals,            \* history: number of MuteSelf signals handled so far
    lastSignal,         \* history: the most recent signal
    \* ---- outbound dispatcher (OSCManager) ----
    enable_pagination,  \* self._enable_pagination
    pagination_task,    \* self._pagination_task: 0 (None) or the index of a job in jobs
    jobs,               \* every _send_paginated_text task created so far, in creation order
    calls,              \* every send_text call made so far, in invocation order
    lock,               \* self._pagination_lock: the calls holding or waiting for it, in order
    wire,               \* history: the _send_single_message calls (typing + input message)
    limits,             \* the environment of a run: how many requests are made, whether
                        \* the UDP client may raise, and SHOW_PARTIAL_RESULTS
    lastFault,          \* history: what the client did at the latest send
    arrivals,           \* history: clock and token count at each call of a burst
    \* ---- calls of the text functions on their own ----
    textIn,             \* the argument text
    maxIn,              \* the argument max_length
    textOp,             \* the function called: "none", "truncate", "truncate2", "split"
    textOut,            \* the values returned so far, in order (for "split": the pages)
    \* ---- speech recognizer (recognition_instance) and its backend ----
    recognizer,         \* the recognizer object: _conversation, _paused and its options
    sessions,           \* history: every backend session created so far, with what it received
    lastOp,             \* history: the latest call of a recognizer method
    \* ---- the session as main.py drives it ----
    pool,               \* executor: the calls handed to the worker pool and not yet collected
    capture,            \* audio_capture_task: where it is suspended
    frames,             \* history: the frames read by the capture loop, in order
    mainpc,             \* main(): where it is suspended
    stop_event,         \* stop_event.is_set()
    env,                \* the environment of a run: what may still happen in it
    lastReq             \* history: the latest request to start or stop recognition

bucketVars == <<tokens, last_refill_time, now, successes, lastCall>>

muteVars == <<backend, mute_delay, recognition_active, recognition_started,
              mute_delay_task, timers, awaiting, signals, lastSignal>>

oscVars == <<enable_pagination, pagination_task, jobs, calls, lock, wire,
             limits, lastFault, arrivals>>

textVars == <<textIn, maxIn, textOp, textOut>>

recVars == <<recognizer, sessions, lastOp>>

runVars == <<pool, capture, frames, mainpc, stop_event, env, lastReq>>

sessVars == <<recVars, runVars>>

vars == <<bucketVars, muteVars, oscVars, textVars, sessVars>>

(***************************************************************************)
(*                              TOKEN BUCKET                               *)
(***************************************************************************)

\* The clock is read on a grid of TicksPerSecond ticks per second.
TicksPerSecond == 2
\* The clock stops at MaxTime ticks.
MaxTime == 14
\* Longest time between two events, in ticks.
MaxStep == 5
\* Forced calls may drive the counter below zero; they stop at -MaxDebt.
MaxDebt == 3

\* self._rate_limit_interval (seconds) and self._rate_limit_burst
rate_limit_interval == 2
rate_limit_burst == 2

\* the interval in clock ticks
IntervalTicks == rate_limit_interval * TicksPerSecond

Min(a, b) == IF a <= b THEN a ELSE b
Max(a, b) == IF a >= b THEN a ELSE b

\* int(x / y) of Python for integers x, y > 0: truncation towards zero
IntDiv(x, y) == IF x >= 0 THEN x \div y ELSE -((-x) \div y)

\* A refill that adds the tokens and forgets to advance the refill time.
RefillNoAdvance(tok, last, t) ==
    LET elapsed_time  == t - last
        tokens_to_add == Min(IntDiv(elapsed_time, IntervalTicks), rate_limit_burst - tok)
        tok1          == IF tokens_to_add >= 1 THEN tok + tokens_to_add ELSE tok
    IN  [tokens |-> tok1,
         last   |-> Max(last, t - IntervalTicks * (rate_limit_burst - tok1))]

\* A refill that forgets to cap the added tokens at the free capacity.
RefillNoCap(tok, last, t) ==
    LET elapsed_time  == t - last
        tokens_to_add == IntDiv(elapsed_time, IntervalTicks)
        tok1          == IF tokens_to_add >= 1 THEN tok + tokens_to_add ELSE tok
        last1         == IF tokens_to_add >= 1 THEN last + tokens_to_add * IntervalTicks ELSE last
    IN  [tokens |-> tok1,
         last   |-> Max(last1, t - IntervalTicks * (rate_limit_burst - tok1))]

\* A refill that restarts the clock at the time of the call whenever it adds
\* tokens, dropping the elapsed time below one interval.
RefillResetsClock(tok, last, t) ==
    LET elapsed_time  == t - last
        tokens_to_add == Min(IntDiv(elapsed_time, IntervalTicks), rate_limit_burst - tok)
        tok1          == IF tokens_to_add >= 1 THEN tok + tokens_to_add ELSE tok
        last1         == IF tokens_to_add >= 1 THEN t ELSE last
    IN  [tokens |-> tok1,
         last   |-> Max(last1, t - IntervalTicks * (rate_limit_burst - tok1))]

\* OSCManager._refill_tokens at clock value t: the new _tokens and _last_refill_time
RefillTokens(tok, last, t) ==
    LET elapsed_time  == t - last
        tokens_to_add == Min(IntDiv(elapsed_time, IntervalTicks), rate_limit_burst - tok)
        tok1          == IF tokens_to_add >= 1 THEN tok + tokens_to_add ELSE tok
        last1         == IF tokens_to_add >= 1 THEN last + tokens_to_add * IntervalTicks ELSE last
    IN  [tokens |-> tok1,
         last   |-> Max(last1, t - IntervalTicks * (rate_limit_burst - tok1))]

\* A _can_send that consumes a token without looking at the count.
CanSendUnchecked(tok, last, t, force_send) ==
    LET r == RefillTokens(tok, last, t)
    IN  [ok |-> TRUE, tokens |-> r.tokens - 1, last |-> r.last, refilled |-> r.tokens]

\* A _can_send whose decrement is lost: it is written from a count read before
\* another call's decrement, as two calls that interleave would do.
CanSendLostDecrement(tok, last, t, force_send) ==
    LET r == RefillTokens(tok, last, t)
    IN  IF ~force_send /\ r.tokens <= 0
          THEN [ok |-> FALSE, tokens |-> r.tokens, last |-> r.last, refilled |-> r.tokens]
          ELSE [ok |-> TRUE,  tokens |-> r.tokens, last |-> r.last, refilled |-> r.tokens]

\* OSCManager._can_send(force_send) at clock value t: the result and the new counters
CanSendResult(tok, last, t, force_send) ==
    LET r == RefillTokens(tok, last, t)
    IN  IF ~force_send /\ r.tokens <= 0
          THEN [ok |-> FALSE, tokens |-> r.tokens,     last |-> r.last, refilled |-> r.tokens]
          ELSE [ok |-> TRUE,  tokens |-> r.tokens - 1, last |-> r.last, refilled |-> r.tokens]

NoCall == [force |-> FALSE, ok |-> FALSE, refilled |-> 0, after |-> 0, made |-> FALSE]

BucketStart ==
    /\ tokens = rate_limit_burst
    /\ last_refill_time = 0
    /\ now = 0
    /\ successes = 0
    /\ lastCall = NoCall

\* d ticks pass
Advance(d) ==
    /\ now + d <= MaxTime
    /\ now' = now + d
    /\ UNCHANGED <<tokens, last_refill_time, successes, lastCall>>
    /\ UNCHANGED <<muteVars, oscVars, textVars, sessVars>>

\* time passes between two calls
Tick == \E d \in 1..MaxStep : Advance(d)

\* one refill interval passes between two events of the dispatcher
IntervalPasses == Advance(IntervalTicks)

\* the effect of one call of _can_send(force_send) on the bucket
ConsumeToken(force_send) ==
    LET r == CanSendResult(tokens, last_refill_time, now, force_send)
    IN  /\ tokens' = r.tokens
        /\ last_refill_time' = r.last
        /\ successes' = IF r.ok THEN successes + 1 ELSE successes
        /\ lastCall' = [force |-> force_send, ok |-> r.ok, refilled |-> r.refilled,
                        after |-> r.tokens, made |-> TRUE]
        /\ UNCHANGED now

\* one call of _can_send(force_send) on its own
CanSendCall(force_send) ==
    /\ CanSendResult(tokens, last_refill_time, now, force_send).tokens >= -MaxDebt
    /\ ConsumeToken(force_send)
    /\ UNCHANGED <<muteVars, oscVars, textVars, sessVars>>

\* the call send_text makes for an ongoing text: _can_send(not ongoing)
CanSendOngoing == CanSendCall(FALSE)

\* a call that bypasses the limit
CanSendForced == CanSendCall(TRUE)

(***************************************************************************)
(*                            MUTE COORDINATOR                             *)
(*                                                                         *)
(* OSCManager._handle_mute_self creates one task per MuteSelf message; the *)
(* event loop starts tasks in creation order, so a handler runs from its   *)
(* start to its first suspension point before the next handler starts.     *)
(* A signal action below is therefore the arrival of the message together  *)
(* with the handler's run up to its first await.  The awaits (the mute     *)
(* delay, the calls in the worker pool, the 0.1 s pause) end in any order. *)
(* ENABLE_MIC_CONTROL is True and recognition_instance is set before the   *)
(* first handler can run (main.py 628-636 has no await).                   *)
(***************************************************************************)

\* Number of MuteSelf messages in a run.
MaxSignals == 4

Backends == {"qwen", "dashscope"}
MuteDelays == {"zero", "positive"}

\* program counters of a delayed_stop task
\*   sleep   : await asyncio.sleep(MUTE_DELAY_SECONDS)
\*   silence : stop_recognition_async, await send_audio_frame_async (dashscope)
\*   sleep01 : stop_recognition_async, await asyncio.sleep(0.1)     (dashscope)
\*   stop    : stop_recognition_async, await recognizer.stop        (dashscope)
\*   pause   : stop_recognition_async, await recognizer.pause       (qwen)
TimerPcs == {"sleep", "silence", "sleep01", "stop", "pause", "done"}

\* await points of the handler coroutines (not tasks the coordinator can cancel)
\*   start, resume : an unmute handler inside start_recognition_async
\*   h_*           : a mute handler inside stop_recognition_async (delay zero)
AwaitPoints == {"start", "resume", "h_silence", "h_sleep01", "h_stop", "h_pause"}

MuteStart(b, d) ==
    /\ backend = b
    /\ mute_delay = d
    /\ recognition_active = FALSE
    /\ recognition_started = FALSE
    /\ mute_delay_task = 0
    /\ timers = << >>
    /\ awaiting = [k \in AwaitPoints |-> 0]
    /\ signals = 0
    /\ lastSignal = "none"

\* A cancel() that marks the task and lets it run on.
CancelIgnored(ts, i) ==
    [ts EXCEPT ![i].cancelled = TRUE,
               ![i].cancelledAsleep = (ts[i].pc = "sleep")]

\* task.cancel() on a task that is not done: CancelledError is thrown into the
\* coroutine at the await it is suspended in; delayed_stop catches it and ends.
CancelTask(ts, i) ==
    [ts EXCEPT ![i].pc = "done",
               ![i].cancelled = TRUE,
               ![i].cancelledAsleep = (ts[i].pc = "sleep")]

\* "if mute_delay_task and not mute_delay_task.done(): mute_delay_task.cancel()"
CancelPending(ts) ==
    IF mute_delay_task # 0 /\ ts[mute_delay_task].pc # "done"
      THEN CancelTask(ts, mute_delay_task)
      ELSE ts

\* A mute handler that forgets to cancel the pending task before it creates one.
KeepPending(ts) == ts

\* the cancellation a mute handler performs before it schedules a new delayed stop
CancelBeforeReschedule(ts) == CancelPending(ts)

NewTimer ==
    [pc |-> "sleep", cancelled |-> FALSE, cancelledAsleep |-> FALSE,
     calledStop |-> FALSE, activeAtCreate |-> recognition_active]

\* first await of stop_recognition_async after "recognition_active = False"
FirstStopPoint == IF backend = "dashscope" THEN "silence" ELSE "pause"

\* handle_mute_change(True)
MuteSignalCore ==
    /\ signals < MaxSignals
    /\ signals' = signals + 1
    /\ lastSignal' = "mute"
    /\ IF recognition_active
         THEN IF mute_delay = "positive"
                THEN /\ timers' = Append(CancelBeforeReschedule(timers), NewTimer)
                     /\ mute_delay_task' = Len(timers) + 1
                     /\ UNCHANGED <<recognition_active, awaiting>>
                ELSE \* await stop_recognition_async(recognition_instance)
                     /\ timers' = CancelBeforeReschedule(timers)
                     /\ recognition_active' = FALSE
                     /\ awaiting' = [awaiting EXCEPT !["h_" \o FirstStopPoint] = @ + 1]
                     /\ UNCHANGED mute_delay_task
         ELSE UNCHANGED <<timers, mute_delay_task, recognition_active, awaiting>>
    /\ UNCHANGED <<backend, mute_delay, recognition_started>>

MuteSignal ==
    /\ MuteSignalCore
    /\ UNCHANGED <<bucketVars, oscVars, textVars, sessVars>>

\* handle_mute_change(False)
UnmuteSignalCore ==
    /\ signals < MaxSignals
    /\ signals' = signals + 1
    /\ lastSignal' = "unmute"
    /\ timers' = CancelPending(timers)
    /\ IF ~recognition_active
         THEN \* start_recognition_async up to its run_in_executor
              awaiting' = [awaiting EXCEPT
                  ![IF backend = "qwen" /\ recognition_started THEN "resume" ELSE "start"] = @ + 1]
         ELSE UNCHANGED awaiting
    /\ UNCHANGED <<backend, mute_delay, recognition_active, recognition_started, mute_delay_task>>

UnmuteSignal ==
    /\ UnmuteSignalCore
    /\ UNCHANGED <<bucketVars, oscVars, textVars, sessVars>>

\* start_recognition_async after recognizer.start or recognizer.resume returned or raised
StartReturnsCore(k, raised) ==
    /\ awaiting[k] > 0
    /\ awaiting' = [awaiting EXCEPT ![k] = @ - 1]
    /\ recognition_started' = IF k = "start" /\ ~raised THEN TRUE ELSE recognition_started
    /\ recognition_active' = TRUE
    /\ UNCHANGED <<backend, mute_delay, mute_delay_task, timers, signals, lastSignal>>

StartReturns ==
    \E k \in {"start", "resume"}, raised \in BOOLEAN :
        /\ StartReturnsCore(k, raised)
        /\ UNCHANGED <<bucketVars, oscVars, textVars, sessVars>>

\* the next await point of stop_recognition_async, "end" after the last one
NextStopPoint(pc) ==
    CASE pc = "silence" -> "sleep01"
      [] pc = "sleep01" -> "stop"
      [] pc = "stop"    -> "end"
      [] pc = "pause"   -> "end"

\* a mute handler (delay zero) resumes inside stop_recognition_async
HandlerStopStepCore(pc) ==
    /\ awaiting["h_" \o pc] > 0
    /\ LET nxt == NextStopPoint(pc)
       IN  /\ awaiting' = IF nxt = "end"
                            THEN [awaiting EXCEPT !["h_" \o pc] = @ - 1]
                            ELSE [awaiting EXCEPT !["h_" \o pc] = @ - 1,
                                                  !["h_" \o nxt] = @ + 1]
           /\ recognition_started' = IF pc = "stop" THEN FALSE ELSE recognition_started
    /\ UNCHANGED <<backend, mute_delay, recognition_active, mute_delay_task,
                   timers, signals, lastSignal>>

HandlerStopStep ==
    \E pc \in {"silence", "sleep01", "stop", "pause"} :
        /\ HandlerStopStepCore(pc)
        /\ UNCHANGED <<bucketVars, oscVars, textVars, sessVars>>

\* A delayed stop that does not look at the flag again.
StillActiveUnchecked == TRUE

\* "if recognition_active:" of delayed_stop, after its sleep
StillActive == recognition_active

\* delayed_stop after its sleep: "if recognition_active: await stop_recognition_async(...)"
TimerFireCore(i) ==
    /\ timers[i].pc = "sleep"
    /\ IF StillActive
         THEN /\ recognition_active' = FALSE
              /\ timers' = [timers EXCEPT ![i].pc = FirstStopPoint,
                                          ![i].calledStop = (FirstStopPoint = "pause")]
         ELSE /\ timers' = [timers EXCEPT ![i].pc = "done"]
              /\ UNCHANGED recognition_active
    /\ UNCHANGED <<backend, mute_delay, recognition_started, mute_delay_task,
                   awaiting, signals, lastSignal>>

TimerFire(i) ==
    /\ TimerFireCore(i)
    /\ UNCHANGED <<bucketVars, oscVars, textVars, sessVars>>

\* delayed_stop resumes inside stop_recognition_async
TimerStopStepCore(i) ==
    /\ timers[i].pc \in {"silence", "sleep01", "stop", "pause"}
    /\ LET nxt == NextStopPoint(timers[i].pc)
       IN  /\ timers' = [timers EXCEPT ![i].pc = IF nxt = "end" THEN "done" ELSE nxt,
                                       ![i].calledStop = (@ \/ nxt = "stop")]
           /\ recognition_started' = IF timers[i].pc = "stop" THEN FALSE ELSE recognition_started
    /\ UNCHANGED <<backend, mute_delay, recognition_active, mute_delay_task,
                   awaiting, signals, lastSignal>>

TimerStopStep(i) ==
    /\ TimerStopStepCore(i)
    /\ UNCHANGED <<bucketVars, oscVars, textVars, sessVars>>

TimerStep == \E i \in DOMAIN timers : TimerFire(i) \/ TimerStopStep(i)

(***************************************************************************)
(*                      TEXT: TRUNCATION AND PAGINATION                    *)
(*                                                                         *)
(* A text is a sequence of characters (code points).  A character is a     *)
(* one-character string; a character outside ASCII is named by its code    *)
(* point.  Indices inside the operators are Python's (from 0).             *)
(***************************************************************************)

\* MAX_LENGTH of osc_manager.py
MAX_LENGTH == 144

\* SENTENCE_ENDERS, in the order of the list; each mark is a text
SENTENCE_ENDERS ==
    << <<".">>, <<"U+3002">>, <<"U+FF01">>, <<"!">>, <<"U+FF1F">>, <<"?">>,
       <<"U+2026">>, <<".", ".", ".">>, <<"U+203D">>,
       <<"U+FF0C">>, <<",">>, <<"U+FF1B">>, <<";">>,
       <<"U+0589">>, <<"U+061F">>, <<"U+060C">>,
       <<"U+0964">>, <<"U+0965">>, <<"U+1362">>, <<"U+104B">>, <<"U+0F0D">>,
       <<"U+3001">>, <<"U+201A">>, <<"U+066B">> >>

\* the characters str.strip and str.lstrip remove, among those the texts use
Whitespace == {" ", "\n", "\t"}

\* text[a:b] of Python for 0 <= a, b
Slice(text, a, b) == SubSeq(text, a + 1, Min(b, Len(text)))

\* text[a:]
SliceFrom(text, a) == SubSeq(text, a + 1, Len(text))

\* pat occurs in text at index i
MatchAt(text, pat, i) ==
    /\ i + Len(pat) <= Len(text)
    /\ \A j \in 1..Len(pat) : text[i + j] = pat[j]

\* the indices at which pat occurs in text
Occurrences(text, pat) ==
    {i \in 0..(Len(text) - Len(pat)) : MatchAt(text, pat, i)}

\* text.find(pat)
Find(text, pat) ==
    LET occ == Occurrences(text, pat)
    IN  IF occ = {} THEN -1 ELSE CHOOSE i \in occ : \A j \in occ : i <= j

\* text.rfind(pat)
RFind(text, pat) ==
    LET occ == Occurrences(text, pat)
    IN  IF occ = {} THEN -1 ELSE CHOOSE i \in occ : \A j \in occ : i >= j

RECURSIVE LStrip(_)
\* text.lstrip()
LStrip(text) ==
    IF text # << >> /\ Head(text) \in Whitespace THEN LStrip(Tail(text)) ELSE text

RECURSIVE RStrip(_)
RStrip(text) ==
    IF text # << >> /\ text[Len(text)] \in Whitespace
      THEN RStrip(SubSeq(text, 1, Len(text) - 1))
      ELSE text

\* text.strip()
Strip(text) == RStrip(LStrip(text))

RECURSIVE FirstSentenceEnd(_, _, _)
\* the loop of _truncate_text over SENTENCE_ENDERS from the k-th mark on:
\* the smallest index of a mark, -1 when the text holds none
FirstSentenceEnd(text, k, first_sentence_end) ==
    IF k > Len(SENTENCE_ENDERS) THEN first_sentence_end
    ELSE LET idx == Find(text, SENTENCE_ENDERS[k])
         IN  FirstSentenceEnd(text, k + 1,
                 IF idx # -1 /\ (first_sentence_end = -1 \/ idx < first_sentence_end)
                   THEN idx ELSE first_sentence_end)

\* A cut that keeps the head of the text.
HardCutHead(text, max_length) == Slice(text, 0, max_length)

\* text[len(text) - max_length:], the cut of a text without mark
HardCut(text, max_length) == SliceFrom(text, Len(text) - max_length)

RECURSIVE TruncateLoop(_, _)
\* the while loop of _truncate_text
TruncateLoop(text, max_length) ==
    IF Len(text) <= max_length THEN text
    ELSE LET first_sentence_end == FirstSentenceEnd(text, 1, -1)
         IN  IF first_sentence_end # -1
               THEN TruncateLoop(LStrip(SliceFrom(text, first_sentence_end + 1)), max_length)
               ELSE HardCut(text, max_length)

\* A truncation that deletes the first sentence before it looks at the length.
TruncateDeleteFirst(text, max_length) ==
    LET first_sentence_end == FirstSentenceEnd(text, 1, -1)
    IN  IF first_sentence_end # -1
          THEN TruncateLoop(LStrip(SliceFrom(text, first_sentence_end + 1)), max_length)
          ELSE TruncateLoop(text, max_length)

\* OSCManager._truncate_text
TruncateText(text, max_length) ==
    IF Len(text) <= max_length THEN text ELSE TruncateLoop(text, max_length)

RECURSIVE BestSplitPosFirstMark(_, _, _)
\* A search that stops at the first mark of the list that the window holds,
\* instead of keeping the rightmost position over all marks.
BestSplitPosFirstMark(search_text, k, best_split_pos) ==
    IF k > Len(SENTENCE_ENDERS) THEN best_split_pos
    ELSE LET pos == RFind(search_text, SENTENCE_ENDERS[k])
         IN  IF pos # -1 THEN pos
             ELSE BestSplitPosFirstMark(search_text, k + 1, best_split_pos)

RECURSIVE BestSplitPos(_, _, _)
\* the loop of _split_text_into_pages over SENTENCE_ENDERS from the k-th mark on:
\* the largest rfind of a mark in the window, -1 when the window holds none
BestSplitPos(search_text, k, best_split_pos) ==
    IF k > Len(SENTENCE_ENDERS) THEN best_split_pos
    ELSE LET pos == RFind(search_text, SENTENCE_ENDERS[k])
         IN  BestSplitPos(search_text, k + 1,
                 IF pos # -1 /\ pos > best_split_pos THEN pos ELSE best_split_pos)

\* A page that stops before the mark it was cut at.
SentencePageNoMark(remaining_text, best_split_pos) ==
    Strip(Slice(remaining_text, 0, best_split_pos))

\* current_page = remaining_text[:best_split_pos + 1].strip()
SentencePage(remaining_text, best_split_pos) ==
    Strip(Slice(remaining_text, 0, best_split_pos + 1))

\* A window that leaves room for a six-character page marker.
SearchTextForMarker(remaining_text, max_length) ==
    Slice(remaining_text, 0, max_length - 6)

\* search_text = remaining_text[:max_length]
SearchText(remaining_text, max_length) == Slice(remaining_text, 0, max_length)

RECURSIVE SplitLoop(_, _, _)
\* the while loop of _split_text_into_pages
SplitLoop(remaining_text, max_length, pages) ==
    IF remaining_text = << >> THEN pages
    ELSE IF Len(remaining_text) <= max_length THEN Append(pages, remaining_text)
    ELSE LET search_text    == SearchText(remaining_text, max_length)
             best_split_pos == BestSplitPos(search_text, 1, -1)
             last_space     == RFind(search_text, <<" ">>)
             \* last_space > max_length * MIN_SPLIT_RATIO, MIN_SPLIT_RATIO = 0.5
             split_pos      == IF 2 * last_space > max_length THEN last_space ELSE max_length
         IN  IF best_split_pos # -1
               THEN SplitLoop(LStrip(SliceFrom(remaining_text, best_split_pos + 1)),
                              max_length,
                              Append(pages, SentencePage(remaining_text, best_split_pos)))
               ELSE SplitLoop(LStrip(SliceFrom(remaining_text, split_pos)),
                              max_length,
                              Append(pages, Strip(Slice(remaining_text, 0, split_pos))))

\* OSCManager._split_text_into_pages
SplitTextIntoPages(text, max_length) ==
    IF Len(text) <= max_length THEN <<text>> ELSE SplitLoop(text, max_length, << >>)

DigitChars == <<"0", "1", "2", "3", "4", "5", "6", "7", "8", "9">>

RECURSIVE Decimal(_)
\* str(n) for n >= 0
Decimal(n) ==
    IF n < 10 THEN <<DigitChars[n + 1]>>
    ELSE Append(Decimal(n \div 10), DigitChars[(n % 10) + 1])

\* f"[{page_num}/{total_pages}] "
Marker(page_num, total_pages) ==
    <<"[">> \o Decimal(page_num) \o <<"/">> \o Decimal(total_pages) \o <<"]", " ">>

\* A page that gets its marker and is never cut.
PageWithMarkerUncut(page, page_num, total_pages) ==
    Marker(page_num, total_pages) \o page

\* A page numbered with the index of the loop instead of index + 1.
PageWithMarkerZeroBased(page, page_num, total_pages) ==
    LET marker           == Marker(page_num - 1, total_pages)
        page_with_marker == marker \o page
    IN  IF Len(page_with_marker) > MAX_LENGTH
          THEN marker \o Slice(page, 0, MAX_LENGTH - Len(marker))
          ELSE page_with_marker

\* the message _send_paginated_text builds for one page
PageWithMarker(page, page_num, total_pages) ==
    LET marker           == Marker(page_num, total_pages)
        page_with_marker == marker \o page
    IN  IF Len(page_with_marker) > MAX_LENGTH
          THEN marker \o Slice(page, 0, MAX_LENGTH - Len(marker))
          ELSE page_with_marker

(***************************************************************************)
(*                 THE TEXT FUNCTIONS CALLED ON THEIR OWN                  *)
(***************************************************************************)

\* Longest argument text.
MaxTextLen == 5
\* Largest argument max_length.
MaxWidth == 3

\* the characters of the argument texts: two letters, a space, a mark
Alphabet == {"a", "b", " ", "."}

\* the argument texts
Texts == UNION {[1..k -> Alphabet] : k \in 0..MaxTextLen}

\* no text function has been called
NoText ==
    /\ textIn = << >>
    /\ maxIn = 1
    /\ textOp = "none"
    /\ textOut = << >>

\* the arguments of the call to come
TextStart ==
    /\ textIn \in Texts
    /\ maxIn \in 1..MaxWidth
    /\ textOp = "none"
    /\ textOut = << >>

\* self._truncate_text(text, max_length)
TruncateCall ==
    /\ textOp = "none"
    /\ textOp' = "truncate"
    /\ textOut' = <<TruncateText(textIn, maxIn)>>
    /\ UNCHANGED <<textIn, maxIn>>
    /\ UNCHANGED <<bucketVars, muteVars, oscVars, sessVars>>

\* self._truncate_text(r, max_length) for the r a first call returned
TruncateAgain ==
    /\ textOp = "truncate"
    /\ textOp' = "truncate2"
    /\ textOut' = Append(textOut, TruncateText(textOut[1], maxIn))
    /\ UNCHANGED <<textIn, maxIn>>
    /\ UNCHANGED <<bucketVars, muteVars, oscVars, sessVars>>

\* self._split_text_into_pages(text, max_length)
SplitCall ==
    /\ textOp = "none"
    /\ textOp' = "split"
    /\ textOut' = SplitTextIntoPages(textIn, maxIn)
    /\ UNCHANGED <<textIn, maxIn>>
    /\ UNCHANGED <<bucketVars, muteVars, oscVars, sessVars>>

\* The texts _split_text_into_pages is called with on its own: two different
\* marks, so that the rightmost mark need not be the first of the list.
PageAlphabet == {"a", " ", ".", ","}
PageTexts == UNION {[1..k -> PageAlphabet] : k \in 0..MaxTextLen}
\* Its windows: one wider than those of the truncation, so that a space in
\* the middle of the window is not at its end.
PageWidths == 1..(MaxWidth + 1)

\* the arguments of the call of _split_text_into_pages to come
PagesStart ==
    /\ textIn \in PageTexts
    /\ maxIn \in PageWidths
    /\ textOp = "none"
    /\ textOut = << >>

(***************************************************************************)
(*                          OUTBOUND DISPATCHER                            *)
(*                                                                         *)
(* Every send_text call is a coroutine of its own on the event loop        *)
(* (main.py hands it over with run_coroutine_threadsafe).  A call runs     *)
(* without interruption up to an await that suspends: the wait for the     *)
(* pagination lock when it is taken, and the wait for the cancelled job.   *)
(* _send_single_message never suspends.  A pagination job suspends in the  *)
(* sleep between two pages.  Suspended coroutines resume in any order.     *)
(***************************************************************************)

\* Number of send_text calls in a run.
MaxCalls == 3
\* Number of ongoing send_text calls in a burst.
MaxBurst == 5

\* text * n
Rep(text, n) == [i \in 1..(n * Len(text)) |-> text[((i - 1) % Len(text)) + 1]]

\* The texts the calls are made with:
\*   1  a final that fits
\*   2  "A. B. C. D. E." repeated until the length is 300: three pages
\*   3  200 letters without mark or space: two pages, cut at the length limit
InputTexts ==
    << <<"O", "K", ".">>,
       Slice(Rep(<<"A", ".", " ", "B", ".", " ", "C", ".", " ", "D", ".", " ", "E", ".">>, 22), 0, 300),
       Rep(<<"a">>, 200) >>

TextIds == DOMAIN InputTexts

\* pages = self._split_text_into_pages(text, max_length=MAX_LENGTH), per input text
PagesOf ==
    << SplitTextIntoPages(InputTexts[1], MAX_LENGTH),
       SplitTextIntoPages(InputTexts[2], MAX_LENGTH),
       SplitTextIntoPages(InputTexts[3], MAX_LENGTH) >>

\* self._truncate_text(text, max_length=MAX_LENGTH), per input text
TruncatedOf ==
    << TruncateText(InputTexts[1], MAX_LENGTH),
       TruncateText(InputTexts[2], MAX_LENGTH),
       TruncateText(InputTexts[3], MAX_LENGTH) >>

\* program counters of a send_text call
\*   waitLock    : suspended in "async with self._pagination_lock"
\*   awaitCancel : holds the lock, suspended in "await self._pagination_task"
\* program counters of a pagination job
\*   created     : the task exists and has not run yet
\*   sleeping    : await asyncio.sleep(self._page_interval)
\*   cancelling  : cancel() was called, CancelledError not yet delivered
\* for both, failed : ended by an exception

\* the dispatcher after construction and configure_pagination(e), in a run of
\* n requests, with a client that may raise at any send (r) or never, and
\* with SHOW_PARTIAL_RESULTS = p
OscStartWith(e, n, r, p) ==
    /\ limits = [calls |-> n, raises |-> r, partials |-> p]
    /\ lastFault = "none"
    /\ arrivals = << >>
    /\ enable_pagination = e
    /\ pagination_task = 0
    /\ jobs = << >>
    /\ calls = << >>
    /\ lock = << >>
    /\ wire = << >>

\* a run of MaxCalls send_text calls with a client that never raises
OscStart(e) == OscStartWith(e, MaxCalls, FALSE, TRUE)

\* where the client raises in one _send_single_message:
\*   none   : both messages are handed over
\*   typing : send_message("/chatbox/typing", ...) raises, nothing is handed over
\*   input  : send_message("/chatbox/input", ...) raises, the typing message is out
FaultKinds == {"none", "typing", "input"}

\* what the client may do at the next send
FaultChoices == IF limits.raises THEN FaultKinds ELSE {"none"}

\* A send that lets the client's exception through.
ReturnsNormallyUnlessRaised(fault) == fault = "none"

\* "except Exception as e: logger.error(...)": _send_single_message returns
\* normally whatever the client did
ReturnsNormally(fault) == TRUE

\* one _send_single_message(text, ongoing):
\*   client.send_message("/chatbox/typing", ongoing)
\*   client.send_message("/chatbox/input", [text, True, not ongoing])
\* page and total are the page number and the number of pages (0 for a single
\* message), sleeps the page intervals the job waited before it
Sent(text, ongoing, call, page, total, sleeps) ==
    Append(wire, [text |-> text, ongoing |-> ongoing, typing |-> ongoing,
                  input |-> TRUE, call |-> call, page |-> page, total |-> total,
                  sleeps |-> sleeps])

\* one set_typing(typing): client.send_message("/chatbox/typing", typing) alone
SentTyping(typing) ==
    Append(wire, [text |-> << >>, ongoing |-> typing, typing |-> typing,
                  input |-> FALSE, call |-> 0, page |-> 0, total |-> 0,
                  sleeps |-> 0])

\* asyncio.create_task(self._send_paginated_text(text)) by call c of the calls cs
NewJob(c, cs) ==
    [call |-> c, text |-> cs[c].text, next |-> 1, pc |-> "created",
     cancelled |-> FALSE, sentAtCancel |-> 0, sleeps |-> 0]

\* A cancel() the job never notices.
CancelJobIgnored(js, j) ==
    [js EXCEPT ![j].cancelled = TRUE,
               ![j].sentAtCancel = js[j].next - 1]

\* self._pagination_task.cancel()
CancelJob(js, j) ==
    [js EXCEPT ![j].pc = "cancelling",
               ![j].cancelled = TRUE,
               ![j].sentAtCancel = js[j].next - 1]

\* A send_text that starts the new job without looking at the previous one.
NeverSupersede(p, js) == FALSE

\* "if self._pagination_task and not self._pagination_task.done()"
MustSupersede(p, js) == p # 0 /\ js[p].pc \notin {"done", "failed"}

\* the body of "async with self._pagination_lock" for call c, from its start to
\* its suspension or its end; cs and lk are the calls and the lock queue with c
\* at its head
Critical(c, cs, lk) ==
    IF MustSupersede(pagination_task, jobs)
      THEN /\ jobs' = CancelJob(jobs, pagination_task)
           /\ calls' = [cs EXCEPT ![c].pc = "awaitCancel"]
           /\ lock' = lk
           /\ UNCHANGED pagination_task
      ELSE /\ jobs' = Append(jobs, NewJob(c, cs))
           /\ pagination_task' = Len(jobs) + 1
           /\ calls' = [cs EXCEPT ![c].pc = "done"]
           /\ lock' = Tail(lk)

\* A limiter that gates every call.
RateLimitedAll(ongoing) == TRUE

\* "if ongoing:" - the calls the rate limit applies to
RateLimited(ongoing) == ongoing

\* A test for pagination that forgets the ongoing flag.
NeedsPaginationAnyFlag(enabled, text, ongoing) ==
    enabled /\ Len(text) > MAX_LENGTH

\* "if self._enable_pagination and len(text) > MAX_LENGTH and not ongoing"
NeedsPagination(enabled, text, ongoing) ==
    enabled /\ Len(text) > MAX_LENGTH /\ ~ongoing

\* the record of a send_text call: its arguments, its position, and whether
\* it got past the rate limit
NewCall(t, ongoing, pc, passed) ==
    [text |-> t, ongoing |-> ongoing, pc |-> pc, passed |-> passed]

\* send_text(text, ongoing) from its start to its first suspension or its end;
\* fault is what the client does if the call sends
SendTextCall(t, ongoing, fault) ==
    LET c    == Len(calls) + 1
        gate == IF RateLimited(ongoing)
                  THEN CanSendResult(tokens, last_refill_time, now, ~ongoing)
                  ELSE [ok |-> TRUE, tokens |-> tokens, last |-> last_refill_time,
                        refilled |-> tokens]
    IN  /\ IF RateLimited(ongoing)
              THEN ConsumeToken(~ongoing)
              ELSE UNCHANGED bucketVars
        /\ IF ~gate.ok
              THEN /\ calls' = Append(calls, NewCall(t, ongoing, "done", FALSE))
                   /\ UNCHANGED <<pagination_task, jobs, lock, wire, lastFault>>
            ELSE IF NeedsPagination(enable_pagination, InputTexts[t], ongoing)
              THEN /\ LET cs == Append(calls, NewCall(t, ongoing, "done", TRUE))
                      IN  IF lock = << >>
                            THEN Critical(c, cs, <<c>>)
                            ELSE /\ calls' = [cs EXCEPT ![c].pc = "waitLock"]
                                 /\ lock' = Append(lock, c)
                                 /\ UNCHANGED <<pagination_task, jobs>>
                   /\ UNCHANGED <<wire, lastFault>>
              ELSE /\ wire' = Sent(TruncatedOf[t], ongoing, c, 0, 0, 0)
                   /\ lastFault' = fault
                   /\ calls' = Append(calls,
                                  NewCall(t, ongoing,
                                          IF ReturnsNormally(fault) THEN "done" ELSE "failed",
                                          TRUE))
                   /\ UNCHANGED <<pagination_task, jobs, lock>>
        /\ UNCHANGED <<enable_pagination, limits>>
        /\ UNCHANGED <<muteVars, textVars, sessVars>>

\* send_text(text, ongoing=True)
SendTextOngoing(t) ==
    /\ Len(calls) < limits.calls
    /\ \E fault \in FaultChoices : SendTextCall(t, TRUE, fault)
    /\ UNCHANGED arrivals

\* send_text(text, ongoing=False) that takes the else branch: truncate and send
SendTextFinalSingle(t) ==
    /\ Len(calls) < limits.calls
    /\ ~NeedsPagination(enable_pagination, InputTexts[t], FALSE)
    /\ \E fault \in FaultChoices : SendTextCall(t, FALSE, fault)
    /\ UNCHANGED arrivals

\* send_text(text, ongoing=False) that paginates
SendTextFinalPaginated(t) ==
    /\ Len(calls) < limits.calls
    /\ NeedsPagination(enable_pagination, InputTexts[t], FALSE)
    /\ SendTextCall(t, FALSE, "none")
    /\ UNCHANGED arrivals

\* one of a burst of ongoing send_text calls; the rate limit does not look at
\* the text
BurstOngoing ==
    /\ limits.partials
    /\ Len(calls) < limits.calls
    /\ \E fault \in FaultChoices : SendTextCall(1, TRUE, fault)
    /\ arrivals' = Append(arrivals,
                      [at |-> now,
                       refilled |-> RefillTokens(tokens, last_refill_time, now).tokens])

\* an ongoing result when partial results are not shown: on_result hands
\* set_typing(is_ongoing) to the loop instead of send_text
SetTyping ==
    /\ ~limits.partials
    /\ Len(wire) < limits.calls
    /\ wire' = SentTyping(TRUE)
    /\ \E fault \in FaultChoices : lastFault' = fault
    /\ UNCHANGED <<enable_pagination, pagination_task, jobs, calls, lock, limits, arrivals>>
    /\ UNCHANGED <<bucketVars, muteVars, textVars, sessVars>>

\* the first waiter is given the lock and runs the body
LockGranted ==
    /\ lock # << >>
    /\ calls[Head(lock)].pc = "waitLock"
    /\ Critical(Head(lock), calls, lock)
    /\ UNCHANGED <<enable_pagination, wire, limits, lastFault, arrivals>>
    /\ UNCHANGED <<bucketVars, muteVars, textVars, sessVars>>

\* "await self._pagination_task" returns (CancelledError is swallowed), the call
\* creates the new job and leaves the lock
CallResumes ==
    /\ lock # << >>
    /\ calls[Head(lock)].pc = "awaitCancel"
    /\ jobs[pagination_task].pc = "done"
    /\ jobs' = Append(jobs, NewJob(Head(lock), calls))
    /\ pagination_task' = Len(jobs) + 1
    /\ calls' = [calls EXCEPT ![Head(lock)].pc = "done"]
    /\ lock' = Tail(lock)
    /\ UNCHANGED <<enable_pagination, wire, limits, lastFault, arrivals>>
    /\ UNCHANGED <<bucketVars, muteVars, textVars, sessVars>>

\* _send_paginated_text runs from its start, or from the end of a sleep, to its
\* next sleep or its end: it sends one page
JobSendsPage(j) ==
    /\ jobs[j].pc \in {"created", "sleeping"}
    /\ \E fault \in FaultChoices :
       LET pages       == PagesOf[jobs[j].text]
           total_pages == Len(pages)
           page_num    == jobs[j].next
           slept       == IF jobs[j].pc = "sleeping" THEN jobs[j].sleeps + 1 ELSE jobs[j].sleeps
       IN  /\ wire' = Sent(PageWithMarker(pages[page_num], page_num, total_pages),
                           FALSE, jobs[j].call, page_num, total_pages, slept)
           /\ lastFault' = fault
           /\ jobs' = [jobs EXCEPT ![j].next = page_num + 1,
                                   ![j].sleeps = slept,
                                   ![j].pc = IF ~ReturnsNormally(fault) THEN "failed"
                                             ELSE IF page_num < total_pages THEN "sleeping"
                                             ELSE "done"]
    /\ UNCHANGED <<enable_pagination, pagination_task, calls, lock, limits, arrivals>>
    /\ UNCHANGED <<bucketVars, muteVars, textVars, sessVars>>

\* CancelledError reaches the cancelled job, which ends
JobCancelled(j) ==
    /\ jobs[j].pc = "cancelling"
    /\ jobs' = [jobs EXCEPT ![j].pc = "done"]
    /\ UNCHANGED <<enable_pagination, pagination_task, calls, lock, wire, limits, lastFault,
                   arrivals>>
    /\ UNCHANGED <<bucketVars, muteVars, textVars, sessVars>>

SendText ==
    \E t \in TextIds :
        \/ SendTextOngoing(t)
        \/ SendTextFinalSingle(t)
        \/ SendTextFinalPaginated(t)

JobStep == \E j \in DOMAIN jobs : JobSendsPage(j) \/ JobCancelled(j)

(***************************************************************************)
(*                           SPEECH RECOGNIZER                             *)
(*                                                                         *)
(* recognition_instance is a QwenSpeechRecognizer (backend "qwen") or a    *)
(* DashscopeSpeechRecognizer (backend "dashscope").  The first keeps an    *)
(* OmniRealtimeConversation in _conversation and a _paused flag; the       *)
(* second hands every call to the Recognition object of the SDK, which     *)
(* refuses start while it runs and stop and send_audio_frame while it      *)
(* does not.  A method runs in a worker thread; here it takes effect in    *)
(* one step, but for send_audio_frame of the first, which tests _paused    *)
(* under the lock in one step and appends the frame in a later one.        *)
(* sessions records, per backend session, what reached it.                 *)
(***************************************************************************)

\* Number of recognizer method calls in a run of the recognizer on its own.
MaxOps == 5

SAMPLE_RATE == 16000
BLOCK_SIZE == 1600
VAD_SILENCE_DURATION_MS == 800

\* values of turn_detection_silence_duration_ms (0 also stands for None)
SilenceDurations == {0, 1, VAD_SILENCE_DURATION_MS, 3000}

Methods == {"start", "stop", "pause", "resume", "send_audio_frame"}

\* the recognizer after __init__
NewRecognizer(vad, ms) ==
    [conversation |-> 0, paused |-> FALSE,
     enable_turn_detection |-> vad, turn_detection_silence_duration_ms |-> ms]

\* what a backend session receives
\*   append : append_audio (qwen) or send_audio_frame (dashscope SDK) of
\*            samples 16-bit samples, all zero or not
\*   commit : conversation.commit()
\*   close  : conversation.close() (qwen) or stop (dashscope SDK)
Audio(zeros, samples) == [op |-> "append", zeros |-> zeros, samples |-> samples]
Commit == [op |-> "commit", zeros |-> FALSE, samples |-> 0]
Close == [op |-> "close", zeros |-> FALSE, samples |-> 0]

\* a frame read from the microphone: stream.read(BLOCK_SIZE)
MicFrame == Audio(FALSE, BLOCK_SIZE)

\* silence_data = b'\x00' * (BITS // 8 * BLOCK_SIZE) of stop_recognition_async
SilenceBlock == Audio(TRUE, BLOCK_SIZE)

\* a session right after OmniRealtimeConversation(...) or Recognition.start()
NewSession == [closed |-> FALSE, log |-> << >>]

\* session n receives e
Received(ses, n, e) == [ses EXCEPT ![n].log = Append(@, e)]

\* session n is closed, by the recognizer (e is logged) or by the backend
Closed(ses, n) == [ses EXCEPT ![n].closed = TRUE]

\* the result of a method: the recognizer, the sessions, whether it raised
Result(rec, ses, raised) == [rec |-> rec, ses |-> ses, raised |-> raised]

\* QwenSpeechRecognizer._teardown_conversation: forget the conversation
TeardownConversation(rec) == [rec EXCEPT !.conversation = 0, !.paused = FALSE]

\* QwenSpeechRecognizer.start; fails: connect() or update_session() raises
QwenStart(rec, ses, fails) ==
    IF rec.conversation # 0 THEN Result(rec, ses, FALSE)
    ELSE LET n       == Len(ses) + 1
             created == [rec EXCEPT !.conversation = n, !.paused = FALSE]
             ses1    == Append(ses, NewSession)
         IN  IF fails
               THEN \* self._teardown_conversation(close=True); raise
                    Result(TeardownConversation(created),
                           Closed(Received(ses1, n, Close), n), TRUE)
               ELSE Result(created, ses1, FALSE)

\* QwenSpeechRecognizer.stop
QwenStop(rec, ses) ==
    LET conversation == rec.conversation
        committed    == IF ~rec.enable_turn_detection
                          THEN Received(ses, conversation, Commit) ELSE ses
    IN  IF conversation = 0 THEN Result(rec, ses, FALSE)
        ELSE Result(TeardownConversation(rec),
                    Closed(Received(committed, conversation, Close), conversation), FALSE)

\* A silence of exactly the configured duration.
SilenceSamplesExact(rec) ==
    LET silence_duration_ms == IF rec.turn_detection_silence_duration_ms # 0
                                 THEN rec.turn_detection_silence_duration_ms ELSE 800
    IN  IntDiv(SAMPLE_RATE * silence_duration_ms, 1000)

\* silence_frames of QwenSpeechRecognizer.pause:
\*   silence_duration_ms = self._turn_detection_silence_duration_ms or 800
\*   silence_duration_ms += 200
\*   silence_frames = int(sample_rate * silence_duration_ms / 1000)
SilenceSamples(rec) ==
    LET silence_duration_ms == (IF rec.turn_detection_silence_duration_ms # 0
                                  THEN rec.turn_detection_silence_duration_ms ELSE 800) + 200
    IN  IntDiv(SAMPLE_RATE * silence_duration_ms, 1000)

\* "if self._paused: return" of QwenSpeechRecognizer.pause
PauseReturnsEarly(rec) == rec.paused

\* the branch of pause that calls conversation.commit()
PauseCommits(rec) == ~rec.enable_turn_detection

\* QwenSpeechRecognizer.pause
QwenPause(rec, ses) ==
    IF PauseReturnsEarly(rec) THEN Result(rec, ses, FALSE)
    ELSE LET paused == [rec EXCEPT !.paused = TRUE]
         IN  IF rec.conversation = 0 THEN Result(paused, ses, FALSE)
             ELSE IF PauseCommits(rec)
               THEN Result(paused, Received(ses, rec.conversation, Commit), FALSE)
               ELSE Result(paused,
                           Received(ses, rec.conversation, Audio(TRUE, SilenceSamples(rec))),
                           FALSE)

\* QwenSpeechRecognizer.resume
QwenResume(rec, ses) == Result([rec EXCEPT !.paused = FALSE], ses, FALSE)

\* A send that takes no notice of the flag.
SendSkippedNever(rec) == FALSE

\* "if self._paused: return" of QwenSpeechRecognizer.send_audio_frame
SendSkipped(rec) == rec.paused

\* send_audio_frame once the lock is released: _require_conversation() and
\* conversation.append_audio(audio_b64)
QwenAppendAudio(rec, ses, frame) ==
    IF rec.conversation = 0
      THEN \* _require_conversation raises RuntimeError
           Result(rec, ses, TRUE)
      ELSE Result(rec, Received(ses, rec.conversation, frame), FALSE)

\* QwenSpeechRecognizer.send_audio_frame(data) with data not empty, when no
\* other thread calls the recognizer meanwhile
QwenSendAudioFrame(rec, ses, frame) ==
    IF SendSkipped(rec) THEN Result(rec, ses, FALSE)
    ELSE QwenAppendAudio(rec, ses, frame)

\* DashscopeSpeechRecognizer.start; fails: the SDK cannot open the session
DashscopeStart(rec, ses, fails) ==
    IF rec.conversation # 0 \/ fails THEN Result(rec, ses, TRUE)
    ELSE Result([rec EXCEPT !.conversation = Len(ses) + 1], Append(ses, NewSession), FALSE)

\* DashscopeSpeechRecognizer.stop
DashscopeStop(rec, ses) ==
    IF rec.conversation = 0 THEN Result(rec, ses, TRUE)
    ELSE Result([rec EXCEPT !.conversation = 0],
                Closed(Received(ses, rec.conversation, Close), rec.conversation), FALSE)

\* DashscopeSpeechRecognizer.send_audio_frame
DashscopeSendAudioFrame(rec, ses, frame) ==
    IF rec.conversation = 0 THEN Result(rec, ses, TRUE)
    ELSE Result(rec, Received(ses, rec.conversation, frame), FALSE)

\* recognition_instance.<fn>(...) for the backend b
Method(b, fn, rec, ses, fails, frame) ==
    IF b = "qwen"
      THEN CASE fn = "start"            -> QwenStart(rec, ses, fails)
             [] fn = "stop"             -> QwenStop(rec, ses)
             [] fn = "pause"            -> QwenPause(rec, ses)
             [] fn = "resume"           -> QwenResume(rec, ses)
             [] fn = "send_audio_frame" -> QwenSendAudioFrame(rec, ses, frame)
      ELSE CASE fn \in {"start", "resume"} -> DashscopeStart(rec, ses, fails)
             [] fn \in {"stop", "pause"}   -> DashscopeStop(rec, ses)
             [] fn = "send_audio_frame"    -> DashscopeSendAudioFrame(rec, ses, frame)

\* the record of a method call: the method, the recognizer it found, how much
\* the session it found had received, whether it raised; n counts the calls
\* made on the recognizer directly
OpRecord(fn, rec, ses, raised, n) ==
    [fn |-> fn, conversation |-> rec.conversation, paused |-> rec.paused,
     received |-> IF rec.conversation = 0 THEN 0 ELSE Len(ses[rec.conversation].log),
     raised |-> raised, n |-> n]

\* no recognizer method has been called
NoOp ==
    [fn |-> "none", conversation |-> 0, paused |-> FALSE, received |-> 0,
     raised |-> FALSE, n |-> 0]

\* the recognizer main() creates, with the options vad and ms
RecognizerStart(vad, ms) ==
    /\ recognizer = NewRecognizer(vad, ms)
    /\ sessions = << >>
    /\ lastOp = NoOp

\* whether start can fail: a start that finds a session does not connect
StartOutcomes(fn) == IF fn \in {"start", "resume"} THEN BOOLEAN ELSE {FALSE}

\* one call of a recognizer method, run to its end
MethodCall(fn) ==
    /\ \E fails \in StartOutcomes(fn), zeros \in BOOLEAN :
          LET r == Method(backend, fn, recognizer, sessions, fails, Audio(zeros, BLOCK_SIZE))
          IN  /\ (fn # "send_audio_frame" => ~zeros)
              /\ recognizer' = r.rec
              /\ sessions' = r.ses
              /\ lastOp' = OpRecord(fn, recognizer, sessions, r.raised, lastOp.n + 1)
    /\ UNCHANGED <<bucketVars, muteVars, oscVars, textVars, runVars>>

\* the methods called on the recognizer directly, MaxOps calls in a run
Start ==
    /\ lastOp.n < MaxOps
    /\ MethodCall("start")

Stop ==
    /\ lastOp.n < MaxOps
    /\ MethodCall("stop")

Pause ==
    /\ lastOp.n < MaxOps
    /\ MethodCall("pause")

Resume ==
    /\ lastOp.n < MaxOps
    /\ MethodCall("resume")

SendAudioFrame ==
    /\ lastOp.n < MaxOps
    /\ MethodCall("send_audio_frame")

\* the backend ends the session on its own: on_close reaches
\* QwenSpeechRecognizer._notify_closed; the dashscope SDK stops running
NotifyClosedCore ==
    /\ recognizer.conversation # 0
    /\ recognizer' = TeardownConversation(recognizer)
    /\ sessions' = Closed(sessions, recognizer.conversation)
    /\ lastOp' = OpRecord("_notify_closed", recognizer, sessions, FALSE, lastOp.n)

NotifyClosed ==
    /\ NotifyClosedCore
    /\ UNCHANGED <<bucketVars, muteVars, oscVars, textVars, runVars>>

(***************************************************************************)
(*                    THE SESSION AS main.py DRIVES IT                     *)
(*                                                                         *)
(* The coordinator above, the capture loop and the shutdown of main() all  *)
(* reach the recognizer through loop.run_in_executor(executor, ...).  Such *)
(* a call is handed to the worker pool, takes effect in a worker thread,   *)
(* and the coroutine that awaits it resumes later; a task cancelled while  *)
(* it awaits leaves its call to the pool.  pool holds the calls between    *)
(* the hand-over and the resumption.  The actions of the coordinator are   *)
(* the ones above, joined with what they hand to the pool and take from    *)
(* it.                                                                     *)
(***************************************************************************)

\* Number of MuteSelf messages in a run of the session.
MaxRequests == 3

\* Number of frames the capture loop reads in a run.
MaxFrames == 2

\* Number of failures (a start that raises, a read that fails) in a run.
MaxFaults == 1

\* Number of times the backend closes the session on its own in a run.
MaxCloses == 1

\* who awaits a call of the pool
\*   Handler  : a coroutine no one cancels (handle_mute_change)
\*   i > 0    : the delayed_stop task timers[i]
\*   MainTask : main()
\*   Capture  : audio_capture_task
\*   Nobody   : the task that awaited it was cancelled
Handler == 0
MainTask == 0 - 1
Capture == 0 - 2
Nobody == 0 - 3

\* the await points that are calls in the worker pool
ExecutorPoints == {"start", "resume", "silence", "stop", "pause", "send"}

\* the await point without the "h_" that marks a handler
PlainPoint(point) ==
    CASE point = "h_silence" -> "silence"
      [] point = "h_stop"    -> "stop"
      [] point = "h_pause"   -> "pause"
      [] OTHER               -> point

\* the recognizer method called at an await point
MethodAt(point) ==
    CASE PlainPoint(point) \in {"silence", "send"} -> "send_audio_frame"
      [] OTHER                                     -> PlainPoint(point)

\* the frame handed over at an await point
FrameAt(point) == IF PlainPoint(point) = "silence" THEN SilenceBlock ELSE MicFrame

\* a call handed to the pool, and the same call after it ran; checked: the
\* worker thread is in send_audio_frame of the qwen recognizer, past
\* "with self._lock: if self._paused: return"
Call(who, point) ==
    [who |-> who, point |-> point, done |-> FALSE, raised |-> FALSE, checked |-> FALSE]
Ran(call, raised) == [call EXCEPT !.done = TRUE, !.raised = raised, !.checked = FALSE]

\* loop.run_in_executor(executor, ...)
Submit(p, who, point) == p (+) SetToBag({Call(who, point)})

\* the coroutine resumes with the result of its call
Collect(p, call) == p (-) SetToBag({call})

\* the calls of who in the pool
CallsOf(p, who) == {c \in BagToSet(p) : c.who = who}

\* task.cancel() reaches a task that awaits a call: the call stays with the
\* pool, its result is dropped
Abandon(p, who) ==
    LET mine == CallsOf(p, who)
        left == {[c EXCEPT !.who = Nobody] : c \in {x \in mine : ~x.done}}
    IN  (p (-) SetToBag(mine)) (+) SetToBag(left)

\* the delayed_stop task that this step cancels while it awaits a call
CancelledInCall ==
    {i \in DOMAIN timers : /\ timers[i].pc \in ExecutorPoints
                           /\ timers'[i].pc = "done"
                           /\ timers'[i].cancelled /\ ~timers[i].cancelled}

\* the delayed_stop tasks that reach a call of the pool in this step
TimersCalling ==
    {i \in DOMAIN timers' : /\ timers'[i].pc \in ExecutorPoints
                            /\ (i \in DOMAIN timers => timers[i].pc # timers'[i].pc)}

\* the await points at which a handler arrives in this step
HandlersCalling ==
    {k \in AwaitPoints : PlainPoint(k) \in ExecutorPoints /\ awaiting'[k] > awaiting[k]}

\* the number of calls a step of the coordinator hands to the pool
CallsMade == Cardinality(HandlersCalling) + Cardinality(TimersCalling)

\* the pool after a step of the coordinator that found it as p
AfterStep(p) ==
    LET abandoned == IF CancelledInCall = {} THEN p
                     ELSE Abandon(p, CHOOSE i \in CancelledInCall : TRUE)
    IN  abandoned (+) SetToBag({Call(Handler, k) : k \in HandlersCalling})
                  (+) SetToBag({Call(i, timers'[i].pc) : i \in TimersCalling})

\* the finished calls a coroutine can resume from
Finished(who, point) == {c \in CallsOf(pool, who) : c.point = point /\ c.done}

\* a request to start or stop recognition: its kind, recognition_active when
\* it was made, the number of calls it handed to the pool, and whether the
\* recognizer had a session then
Request(kind, active, n) ==
    [kind |-> kind, active |-> active, calls |-> n, open |-> recognizer.conversation # 0]
NoRequest == [kind |-> "none", active |-> FALSE, calls |-> 0, open |-> FALSE]

\* the environment of a run
\*   requests  : MuteSelf messages in the run
\*   reads     : frames the microphone still delivers
\*   faults    : failures still to come
\*   closes    : closes by the backend still to come
\*   interrupt : Ctrl+C may be pressed
\*   hotkey    : the toggle hotkey may be pressed
Environment(requests, reads, faults, closes, interrupt) ==
    [requests |-> requests, reads |-> reads, faults |-> faults, closes |-> closes,
     interrupt |-> interrupt, hotkey |-> interrupt]

\* main() at "await stop_event.wait()", the capture task created
RunStart(e) ==
    /\ pool = EmptyBag
    /\ capture = "read"
    /\ frames = << >>
    /\ mainpc = "wait"
    /\ stop_event = FALSE
    /\ env = e
    /\ lastReq = NoRequest

\* main() is not running
NoRun ==
    /\ pool = EmptyBag
    /\ capture = "none"
    /\ frames = << >>
    /\ mainpc = "none"
    /\ stop_event = FALSE
    /\ env = Environment(0, 0, 0, 0, FALSE)
    /\ lastReq = NoRequest

\* the callbacks of OSCManager and the coroutines run while the loop of
\* main() runs; clear_mute_callback() ends the mute signals
LoopRuns == mainpc # "exited"
SignalsHeard == mainpc \in {"wait", "join", "silence", "sleep01", "stop", "pause", "metrics"}

\* the call is send_audio_frame of the qwen recognizer, which tests the
\* paused flag under the lock and appends the frame after releasing it
ChecksThenAppends(call) ==
    backend = "qwen" /\ MethodAt(call.point) = "send_audio_frame"

\* a worker thread in send_audio_frame of the qwen recognizer finds the
\* recognizer not paused and releases the lock
SendPassesCheck ==
    /\ \E call \in BagToSet(pool) :
          /\ ~call.done /\ ~call.checked
          /\ ChecksThenAppends(call)
          /\ ~SendSkipped(recognizer)
          /\ pool' = Collect(pool, call) (+) SetToBag({[call EXCEPT !.checked = TRUE]})
    /\ UNCHANGED <<recVars, capture, frames, mainpc, stop_event, env, lastReq>>
    /\ UNCHANGED <<bucketVars, muteVars, oscVars, textVars>>

\* a call of the pool runs in a worker thread; a send_audio_frame of the
\* qwen recognizer that has passed the flag appends its frame
ExecutorRuns ==
    /\ \E call \in BagToSet(pool) :
          /\ ~call.done
          /\ (ChecksThenAppends(call) /\ ~call.checked) => SendSkipped(recognizer)
          /\ \E fails \in StartOutcomes(MethodAt(call.point)) :
                /\ fails => env.faults > 0
                /\ env' = [env EXCEPT !.faults = IF fails THEN @ - 1 ELSE @]
                /\ LET r == IF call.checked
                              THEN QwenAppendAudio(recognizer, sessions, FrameAt(call.point))
                              ELSE Method(backend, MethodAt(call.point), recognizer,
                                          sessions, fails, FrameAt(call.point))
                   IN  /\ recognizer' = r.rec
                       /\ sessions' = r.ses
                       /\ lastOp' = OpRecord(MethodAt(call.point), recognizer, sessions,
                                             r.raised, lastOp.n)
                       /\ pool' = IF call.who = Nobody
                                    THEN Collect(pool, call)
                                    ELSE Collect(pool, call) (+) SetToBag({Ran(call, r.raised)})
    /\ UNCHANGED <<capture, frames, mainpc, stop_event, lastReq>>
    /\ UNCHANGED <<bucketVars, muteVars, oscVars, textVars>>

\* handle_mute_change(True) while main() runs
OnMute ==
    /\ SignalsHeard
    /\ signals < env.requests
    /\ MuteSignalCore
    /\ pool' = AfterStep(pool)
    /\ lastReq' = Request("stop", recognition_active, CallsMade)
    /\ UNCHANGED <<recVars, capture, frames, mainpc, stop_event, env>>
    /\ UNCHANGED <<bucketVars, oscVars, textVars>>

\* handle_mute_change(False) while main() runs
OnUnmute ==
    /\ SignalsHeard
    /\ signals < env.requests
    /\ UnmuteSignalCore
    /\ pool' = AfterStep(pool)
    /\ lastReq' = Request("start", recognition_active, CallsMade)
    /\ UNCHANGED <<recVars, capture, frames, mainpc, stop_event, env>>
    /\ UNCHANGED <<bucketVars, oscVars, textVars>>

\* start_recognition_async resumes from recognizer.start or recognizer.resume
StartResumes ==
    /\ LoopRuns
    /\ \E k \in {"start", "resume"} : \E call \in Finished(Handler, k) :
          /\ StartReturnsCore(k, call.raised)
          /\ pool' = AfterStep(Collect(pool, call))
    /\ UNCHANGED <<recVars, capture, frames, mainpc, stop_event, env, lastReq>>
    /\ UNCHANGED <<bucketVars, oscVars, textVars>>

\* a mute handler resumes inside stop_recognition_async
HandlerStopResumes ==
    /\ LoopRuns
    /\ \E pc \in {"silence", "sleep01", "stop", "pause"} :
          /\ HandlerStopStepCore(pc)
          /\ IF pc \in ExecutorPoints
               THEN \E call \in Finished(Handler, "h_" \o pc) :
                       pool' = AfterStep(Collect(pool, call))
               ELSE pool' = AfterStep(pool)
    /\ UNCHANGED <<recVars, capture, frames, mainpc, stop_event, env, lastReq>>
    /\ UNCHANGED <<bucketVars, oscVars, textVars>>

\* delayed_stop resumes from its sleep
DelayedStopFires ==
    /\ LoopRuns
    /\ \E i \in DOMAIN timers :
          /\ TimerFireCore(i)
          /\ pool' = AfterStep(pool)
    /\ lastReq' = Request("delayed", recognition_active, CallsMade)
    /\ UNCHANGED <<recVars, capture, frames, mainpc, stop_event, env>>
    /\ UNCHANGED <<bucketVars, oscVars, textVars>>

\* delayed_stop resumes inside stop_recognition_async
DelayedStopResumes ==
    /\ LoopRuns
    /\ \E i \in DOMAIN timers :
          /\ TimerStopStepCore(i)
          /\ IF timers[i].pc \in ExecutorPoints
               THEN \E call \in Finished(i, timers[i].pc) :
                       pool' = AfterStep(Collect(pool, call))
               ELSE pool' = AfterStep(pool)
    /\ UNCHANGED <<recVars, capture, frames, mainpc, stop_event, env, lastReq>>
    /\ UNCHANGED <<bucketVars, oscVars, textVars>>

\* A capture loop that forwards every frame it reads.
ForwardsAlways(active) == TRUE

\* "if recognition_active: await send_audio_frame_async(recognizer, data)"
Forwards(active) == active

\* a frame read by the capture loop: whether the read gave data, the flag
\* recognition_active when the loop had the frame, whether the loop handed the
\* frame to send_audio_frame_async, whether the send raised
Frame(ok, active, forwarded) ==
    [ok |-> ok, active |-> active, forwarded |-> forwarded, raised |-> FALSE]

\* the capture loop is suspended inside its while loop
CaptureLoops == capture \in {"read", "send", "sleep"}

\* audio_capture_task resumes from read_audio_data()
CaptureReads ==
    /\ LoopRuns
    /\ capture = "read"
    /\ env.reads > 0
    /\ \E ok \in BOOLEAN :
          /\ ~ok => env.faults > 0
          /\ env' = [env EXCEPT !.reads = @ - 1, !.faults = IF ok THEN @ ELSE @ - 1]
          /\ IF ok
               THEN LET forwarded == Forwards(recognition_active)
                    IN  /\ frames' = Append(frames, Frame(TRUE, recognition_active, forwarded))
                        /\ capture' = IF forwarded THEN "send" ELSE "sleep"
                        /\ pool' = IF forwarded THEN Submit(pool, Capture, "send") ELSE pool
                        /\ UNCHANGED stop_event
               ELSE \* "if not data: break", then stop_event.set
                    /\ frames' = Append(frames, Frame(FALSE, recognition_active, FALSE))
                    /\ capture' = "ended"
                    /\ stop_event' = TRUE
                    /\ UNCHANGED pool
    /\ UNCHANGED <<recVars, mainpc, lastReq>>
    /\ UNCHANGED <<bucketVars, muteVars, oscVars, textVars>>

\* audio_capture_task resumes from send_audio_frame_async, which swallows
\* what recognizer.send_audio_frame raised
CaptureSent ==
    /\ LoopRuns
    /\ capture = "send"
    /\ \E call \in Finished(Capture, "send") :
          /\ pool' = Collect(pool, call)
          /\ frames' = [frames EXCEPT ![Len(frames)].raised = call.raised]
    /\ capture' = "sleep"
    /\ UNCHANGED <<recVars, mainpc, stop_event, env, lastReq>>
    /\ UNCHANGED <<bucketVars, muteVars, oscVars, textVars>>

\* audio_capture_task resumes from asyncio.sleep(0.001):
\* "while not stop_event.is_set()"
CaptureWakes ==
    /\ LoopRuns
    /\ capture = "sleep"
    /\ capture' = IF stop_event THEN "ended" ELSE "read"
    /\ UNCHANGED <<recVars, pool, frames, mainpc, stop_event, env, lastReq>>
    /\ UNCHANGED <<bucketVars, muteVars, oscVars, textVars>>

\* Ctrl+C: signal_handler sets stop_event
Interrupt ==
    /\ LoopRuns
    /\ env.interrupt
    /\ env' = [env EXCEPT !.interrupt = FALSE]
    /\ stop_event' = TRUE
    /\ UNCHANGED <<recVars, pool, capture, frames, mainpc, lastReq>>
    /\ UNCHANGED <<bucketVars, muteVars, oscVars, textVars>>

\* main() resumes from stop_event.wait(): capture_task.cancel() and
\* "await asyncio.wait_for(capture_task, timeout=2.0)"
MainWakes ==
    /\ mainpc = "wait"
    /\ stop_event
    /\ mainpc' = "join"
    /\ capture' = IF CaptureLoops THEN "cancelled" ELSE capture
    /\ pool' = IF CaptureLoops THEN Abandon(pool, Capture) ELSE pool
    /\ UNCHANGED <<recVars, frames, stop_event, env, lastReq>>
    /\ UNCHANGED <<bucketVars, muteVars, oscVars, textVars>>

\* main() after the capture task ended:
\* "if recognition_active: await stop_recognition_async(recognition_instance)"
MainStops ==
    /\ mainpc = "join"
    /\ IF recognition_active
         THEN /\ recognition_active' = FALSE
              /\ mainpc' = FirstStopPoint
              /\ pool' = Submit(pool, MainTask, FirstStopPoint)
              /\ lastReq' = Request("stop", TRUE, 1)
         ELSE /\ mainpc' = "metrics"
              /\ lastReq' = Request("stop", FALSE, 0)
              /\ UNCHANGED <<recognition_active, pool>>
    /\ UNCHANGED <<backend, mute_delay, recognition_started, mute_delay_task, timers,
                   awaiting, signals, lastSignal>>
    /\ UNCHANGED <<recVars, capture, frames, stop_event, env>>
    /\ UNCHANGED <<bucketVars, oscVars, textVars>>

\* main() resumes inside stop_recognition_async
MainStopResumes ==
    /\ mainpc \in {"silence", "sleep01", "stop", "pause"}
    /\ LET nxt  == NextStopPoint(mainpc)
           left == IF mainpc \in ExecutorPoints
                     THEN {Collect(pool, call) : call \in Finished(MainTask, mainpc)}
                     ELSE {pool}
       IN  /\ left # {}
           /\ \E p \in left :
                 pool' = IF nxt \in ExecutorPoints THEN Submit(p, MainTask, nxt) ELSE p
           /\ mainpc' = IF nxt = "end" THEN "metrics" ELSE nxt
    /\ recognition_started' = IF mainpc = "stop" THEN FALSE ELSE recognition_started
    /\ UNCHANGED <<backend, mute_delay, recognition_active, mute_delay_task, timers,
                   awaiting, signals, lastSignal>>
    /\ UNCHANGED <<recVars, capture, frames, stop_event, env, lastReq>>
    /\ UNCHANGED <<bucketVars, oscVars, textVars>>

\* main() after the metrics: the finally clause up to
\* "await loop.run_in_executor(executor, recognition_instance.stop)"
MainFinally ==
    /\ mainpc = "metrics"
    /\ mainpc' = "final_stop"
    /\ pool' = Submit(pool, MainTask, "stop")
    /\ UNCHANGED <<recVars, capture, frames, stop_event, env, lastReq>>
    /\ UNCHANGED <<bucketVars, muteVars, oscVars, textVars>>

\* main() resumes from recognition_instance.stop, whatever it raised, clears
\* the flags and goes on to "await close_audio_stream()"
MainExits ==
    /\ mainpc = "final_stop"
    /\ \E call \in Finished(MainTask, "stop") : pool' = Collect(pool, call)
    /\ mainpc' = "closing"
    /\ recognition_started' = FALSE
    /\ recognition_active' = FALSE
    /\ UNCHANGED <<backend, mute_delay, mute_delay_task, timers, awaiting, signals, lastSignal>>
    /\ UNCHANGED <<recVars, capture, frames, stop_event, env, lastReq>>
    /\ UNCHANGED <<bucketVars, oscVars, textVars>>

\* main() returns after close_audio_stream, stop_server and executor.shutdown;
\* asyncio.run then cancels the tasks that are left
MainReturns ==
    /\ mainpc = "closing"
    /\ mainpc' = "exited"
    /\ UNCHANGED <<recVars, pool, capture, frames, stop_event, env, lastReq>>
    /\ UNCHANGED <<bucketVars, muteVars, oscVars, textVars>>

\* on_toggle_recognition_hotkey, called by the keyboard library in its own
\* thread: asyncio.get_event_loop() raises RuntimeError in a thread that has
\* no event loop, before the function reads or writes anything
HotkeyPressed ==
    /\ mainpc \in {"wait", "join", "silence", "sleep01", "stop", "pause", "metrics"}
    /\ env.hotkey
    /\ env' = [env EXCEPT !.hotkey = FALSE]
    /\ UNCHANGED <<recVars, pool, capture, frames, mainpc, stop_event, lastReq>>
    /\ UNCHANGED <<bucketVars, muteVars, oscVars, textVars>>

\* the backend reports an error or closes the session on its own
BackendCloses ==
    /\ LoopRuns
    /\ env.closes > 0
    /\ env' = [env EXCEPT !.closes = @ - 1]
    /\ NotifyClosedCore
    /\ UNCHANGED <<pool, capture, frames, mainpc, stop_event, lastReq>>
    /\ UNCHANGED <<bucketVars, muteVars, oscVars, textVars>>

(***************************************************************************)
(*                             SPECIFICATIONS                              *)
(***************************************************************************)

\* the recognizer is not used
NoSession == RecognizerStart(TRUE, VAD_SILENCE_DURATION_MS) /\ NoRun

NextBucket ==
    \/ Tick
    \/ CanSendOngoing

InitBucket ==
    /\ BucketStart /\ MuteStart("qwen", "positive") /\ OscStart(FALSE) /\ NoText
    /\ NoSession

\* The bucket as the program drives it: every call is non-forced.
SpecBucket == InitBucket /\ [][NextBucket]_vars

NextBucketForce ==
    \/ Tick
    \/ CanSendOngoing
    \/ CanSendForced

\* The bucket under the whole contract of _can_send, forced calls included.
SpecBucketForce == InitBucket /\ [][NextBucketForce]_vars

InitMute ==
    /\ NoSession
    /\ BucketStart
    /\ OscStart(FALSE)
    /\ NoText
    /\ \E b \in Backends, d \in MuteDelays : MuteStart(b, d)

InitOsc ==
    /\ NoSession
    /\ BucketStart
    /\ MuteStart("qwen", "positive")
    /\ NoText
    /\ \E e \in BOOLEAN : OscStart(e)

NextOsc ==
    \/ IntervalPasses
    \/ SendText
    \/ LockGranted
    \/ CallResumes
    \/ JobStep

\* The dispatcher under any order of send_text calls and resumptions.
SpecOsc == InitOsc /\ [][NextOsc]_vars

InitText ==
    /\ NoSession
    /\ BucketStart
    /\ MuteStart("qwen", "positive")
    /\ OscStart(FALSE)
    /\ TextStart

NextText ==
    \/ TruncateCall
    \/ TruncateAgain
    \/ SplitCall

\* The text functions on every text of at most MaxTextLen characters.
SpecText == InitText /\ [][NextText]_vars

InitPages ==
    /\ NoSession
    /\ BucketStart
    /\ MuteStart("qwen", "positive")
    /\ OscStart(FALSE)
    /\ PagesStart

NextPages == SplitCall

\* _split_text_into_pages on texts with two kinds of marks.
SpecPages == InitPages /\ [][NextPages]_vars

NextBurst ==
    \/ Tick
    \/ BurstOngoing
    \/ SetTyping

InitBurst ==
    /\ NoSession
    /\ BucketStart
    /\ MuteStart("qwen", "positive")
    /\ NoText
    /\ \E p \in BOOLEAN : OscStartWith(FALSE, MaxBurst, FALSE, p)

\* A burst of ongoing results at any times, shown (send_text) or not
\* (set_typing).
SpecBurst == InitBurst /\ [][NextBurst]_vars

InitFault ==
    /\ NoSession
    /\ BucketStart
    /\ MuteStart("qwen", "positive")
    /\ NoText
    /\ \E e \in BOOLEAN : OscStartWith(e, MaxCalls, TRUE, TRUE)

\* The dispatcher with a UDP client that may raise at any send.
SpecFault == InitFault /\ [][NextOsc]_vars

InitRecognizer ==
    /\ BucketStart
    /\ OscStart(FALSE)
    /\ NoText
    /\ \E b \in Backends : MuteStart(b, "positive")
    /\ \E vad \in BOOLEAN, ms \in SilenceDurations : RecognizerStart(vad, ms)
    /\ NoRun

NextRecognizer ==
    \/ Start
    \/ Stop
    \/ Pause
    \/ Resume
    \/ SendAudioFrame
    \/ NotifyClosed

\* The recognizer on its own, its methods called in any order.
SpecRecognizer == InitRecognizer /\ [][NextRecognizer]_vars

InitSession ==
    /\ BucketStart
    /\ OscStart(FALSE)
    /\ NoText
    /\ \E b \in Backends, d \in MuteDelays : MuteStart(b, d)
    /\ RecognizerStart(TRUE, VAD_SILENCE_DURATION_MS)
    /\ RunStart(Environment(MaxRequests, 1, 0, 0, TRUE))

NextSession ==
    \/ OnMute
    \/ OnUnmute
    \/ StartResumes
    \/ HandlerStopResumes
    \/ DelayedStopFires
    \/ DelayedStopResumes
    \/ ExecutorRuns
    \/ SendPassesCheck
    \/ CaptureReads
    \/ CaptureSent
    \/ CaptureWakes
    \/ Interrupt
    \/ MainWakes
    \/ MainStops
    \/ MainStopResumes
    \/ MainFinally
    \/ MainExits
    \/ MainReturns
    \/ HotkeyPressed

\* The coordinator, the capture loop, the recognizer and the shutdown of
\* main() together, with a backend and a microphone that do not fail.
SpecSession == InitSession /\ [][NextSession]_vars

\* The same run when every call handed to the pool returns and main(), once
\* it can go on, goes on: the worker threads and the event loop keep running.
\* Nothing is required of the microphone, of VRChat or of the user.
SpecSessionFair ==
    /\ SpecSession
    /\ WF_vars(ExecutorRuns) /\ WF_vars(SendPassesCheck)
    /\ WF_vars(MainWakes) /\ WF_vars(MainStops) /\ WF_vars(MainStopResumes)
    /\ WF_vars(MainFinally) /\ WF_vars(MainExits) /\ WF_vars(MainReturns)

InitCapture ==
    /\ BucketStart
    /\ OscStart(FALSE)
    /\ NoText
    /\ \E b \in Backends, d \in MuteDelays : MuteStart(b, d)
    /\ RecognizerStart(TRUE, VAD_SILENCE_DURATION_MS)
    /\ RunStart(Environment(MaxRequests - 1, MaxFrames, MaxFaults, 0, FALSE))

NextCapture ==
    \/ OnMute
    \/ OnUnmute
    \/ StartResumes
    \/ HandlerStopResumes
    \/ DelayedStopFires
    \/ DelayedStopResumes
    \/ ExecutorRuns
    \/ SendPassesCheck
    \/ CaptureReads
    \/ CaptureSent
    \/ CaptureWakes
    \/ MainWakes
    \/ MainStops
    \/ MainStopResumes
    \/ MainFinally
    \/ MainExits
    \/ MainReturns

\* The capture loop beside the coordinator; a read or a start may fail.
SpecCapture == InitCapture /\ [][NextCapture]_vars

InitOutage ==
    /\ BucketStart
    /\ OscStart(FALSE)
    /\ NoText
    /\ \E b \in Backends, d \in MuteDelays : MuteStart(b, d)
    /\ RecognizerStart(TRUE, VAD_SILENCE_DURATION_MS)
    /\ RunStart(Environment(MaxRequests, 1, MaxFaults, MaxCloses, FALSE))

NextOutage ==
    \/ NextCapture
    \/ BackendCloses

\* The session with a backend that may fail to start and may close the
\* session on its own.
SpecOutage == InitOutage /\ [][NextOutage]_vars

NextMute ==
    \/ MuteSignal
    \/ UnmuteSignal
    \/ StartReturns
    \/ HandlerStopStep
    \/ TimerStep

SpecMute == InitMute /\ [][NextMute]_vars


(***************************************************************************)
(*                   PROPERTIES OF THE MUTE COORDINATOR                    *)
(***************************************************************************)

\* no handler is suspended and every delayed_stop task has finished
Quiescent ==
    /\ \A i \in DOMAIN timers : timers[i].pc = "done"
    /\ \A k \in AwaitPoints : awaiting[k] = 0

\* C1: once all handlers and delay timers have finished, recognition_active is
\* true if the last signal was unmute and false if the last signal was mute.
C1_LastSignalWins ==
    (Quiescent /\ lastSignal # "none") =>
        (recognition_active <=> (lastSignal = "unmute"))

\* the step is an unmute handler that finds its pending delayed stop still asleep
UnmuteFindsSleeper ==
    /\ signals' = signals + 1
    /\ lastSignal' = "unmute"
    /\ mute_delay_task # 0
    /\ timers[mute_delay_task].pc = "sleep"

\* C2: when an unmute arrives before the mute delay of a pending delayed stop has
\* elapsed, the pending stop is cancelled, no backend stop/pause is invoked by it
\* (neither at the cancellation nor later), and recognition_active stays true
\* from the mute to the unmute.
C2_UnmuteCancelsPendingStop ==
    /\ [](\A i \in DOMAIN timers : timers[i].pc = "sleep" => recognition_active)
    /\ [](\A i \in DOMAIN timers : timers[i].cancelledAsleep => ~timers[i].calledStop)
    /\ [][UnmuteFindsSleeper =>
            /\ timers'[mute_delay_task].pc = "done"
            /\ timers'[mute_delay_task].cancelledAsleep
            /\ recognition_active /\ recognition_active'
            /\ awaiting' = awaiting
            /\ \A i \in DOMAIN timers : timers'[i].calledStop = timers[i].calledStop]_vars

\* C2 witness: mute while active, then unmute during the delay; everything has
\* finished, the session is active and no stop or pause was ever invoked.
C2_Witness ==
    /\ lastSignal = "unmute"
    /\ Quiescent
    /\ recognition_active
    /\ Len(timers) = 1
    /\ timers[1].cancelledAsleep
    /\ ~timers[1].calledStop

\* C3: at most one delayed-stop task can still fire, it is the one created by the
\* latest mute handled while active, and no task was created by a mute handled
\* while the session was not active.
C3_OnePendingStop ==
    /\ Cardinality({i \in DOMAIN timers : timers[i].pc = "sleep"}) <= 1
    /\ \A i \in DOMAIN timers :
          timers[i].pc = "sleep" => (i = mute_delay_task /\ i = Len(timers))
    /\ \A i \in DOMAIN timers : timers[i].activeAtCreate

\* C3 witness: a second mute replaced the first pending stop, the second one
\* fired, and a further mute, handled while inactive, created no task.
C3_Witness ==
    /\ signals = 4
    /\ lastSignal = "mute"
    /\ ~recognition_active
    /\ Len(timers) = 2
    /\ timers[1].cancelledAsleep
    /\ timers[2].calledStop
    /\ timers[2].pc = "done"

(***************************************************************************)
(*                     PROPERTIES OF THE DISPATCHER                        *)
(***************************************************************************)

\* the number of pages of job j
TotalPages(j) == Len(PagesOf[jobs[j].text])

\* the wire entries that are pages of a paginated delivery
PageEntries == {i \in DOMAIN wire : wire[i].page > 0}

\* C4: every text handed to the client (an ongoing update, a single final
\* message, a page with its "[i/total] " marker) has length at most MAX_LENGTH.
C4_WireWithinMaxLength ==
    \A i \in DOMAIN wire : Len(wire[i].text) <= MAX_LENGTH

\* C4 witness: an over-length ongoing text cut to the limit, a single final
\* message, and a first page whose body was cut to make room for its marker.
C4_Witness ==
    \E i, j, k \in DOMAIN wire :
        /\ wire[i].ongoing /\ calls[wire[i].call].text = 3 /\ Len(wire[i].text) = MAX_LENGTH
        /\ ~wire[j].ongoing /\ wire[j].page = 0
        /\ wire[k].page = 1 /\ calls[wire[k].call].text = 3 /\ Len(wire[k].text) = MAX_LENGTH

\* C5: at most one pagination job is unfinished, it is the latest one, a call
\* that waits for the cancelled job holds the lock, and the pages of two jobs
\* are never interleaved on the wire.
C5_OneUnfinishedJob ==
    /\ Cardinality({j \in DOMAIN jobs : jobs[j].pc # "done"}) <= 1
    /\ \A j \in DOMAIN jobs :
          jobs[j].pc # "done" => (j = Len(jobs) /\ j = pagination_task)
    /\ \A c \in DOMAIN calls :
          calls[c].pc = "awaitCancel" => (lock # << >> /\ Head(lock) = c)
    /\ \A i, k, l \in PageEntries :
          (i < k /\ k < l /\ wire[i].call = wire[l].call) => wire[k].call = wire[i].call

\* C5 witness: a job was cancelled after it sent a page, and the job that
\* replaced it has sent a page.
C5_Witness ==
    /\ Len(jobs) = 2
    /\ jobs[1].cancelled /\ jobs[1].sentAtCancel >= 1 /\ jobs[1].pc = "done"
    /\ jobs[2].next > 1

\* C6: after a newer over-length final cancelled a delivery, no further page of
\* the cancelled delivery is sent, and the first page of a delivery is sent
\* without a page interval before it (page k after exactly k - 1 intervals).
C6_SupersededPagesNeverSent ==
    /\ \A j \in DOMAIN jobs :
          jobs[j].cancelled =>
              /\ jobs[j].next - 1 = jobs[j].sentAtCancel
              /\ \A i \in PageEntries :
                    wire[i].call = jobs[j].call => wire[i].page <= jobs[j].sentAtCancel
    /\ \A i \in PageEntries : wire[i].sleeps = wire[i].page - 1

\* C6 witness: T1 has three pages and was cancelled between page 1 and page 2;
\* the wire holds page 1 of T1 followed directly by page 1 of T2.
C6_Witness ==
    /\ Len(jobs) = 2
    /\ TotalPages(1) = 3
    /\ jobs[1].cancelled /\ jobs[1].sentAtCancel = 1 /\ jobs[1].pc = "done"
    /\ Len(wire) = 2
    /\ wire[1].call = jobs[1].call /\ wire[1].page = 1
    /\ wire[2].call = jobs[2].call /\ wire[2].page = 1 /\ wire[2].sleeps = 0

\* C7 as claimed: no page of an older final is sent after the message of a newer
\* final, whether or not the newer final needs pagination.
C7_NewestFinalWins ==
    \A i, k \in DOMAIN wire :
        (i < k /\ ~wire[i].ongoing /\ wire[k].page > 0) => wire[i].call <= wire[k].call

\* C7 amended: among the finals that need pagination the newest wins: jobs are
\* created in the order of their calls, a job is finished or cancelled before
\* the next one is created, and no page of an older delivery is sent after a
\* page of a newer one.
C7_NewestPaginatedWins ==
    /\ \A i, k \in PageEntries : i < k => wire[i].call <= wire[k].call
    /\ \A j \in DOMAIN jobs :
          j < Len(jobs) =>
              /\ jobs[j].call < jobs[j + 1].call
              /\ jobs[j].pc = "done"
              /\ (jobs[j].next <= TotalPages(j) => jobs[j].cancelled)

\* C7 witness: three over-length finals; the first two deliveries were cancelled
\* with pages unsent, and the last page on the wire belongs to the third.
C7_Witness ==
    /\ Len(jobs) = 3
    /\ jobs[1].cancelled /\ jobs[1].next <= TotalPages(1)
    /\ jobs[2].cancelled /\ jobs[2].next <= TotalPages(2)
    /\ wire # << >>
    /\ wire[Len(wire)].call = jobs[3].call
    /\ \E i \in PageEntries : wire[i].call = jobs[1].call

(***************************************************************************)
(*                      PROPERTIES OF THE TOKEN BUCKET                     *)
(***************************************************************************)

\* C8: starting from a full bucket, the number of non-forced _can_send calls
\* that returned True never exceeds burstCapacity + floor(totalElapsed / interval).
C8_SuccessesBounded ==
    successes <= rate_limit_burst + (now \div IntervalTicks)

\* C8 witness: the bound is met with equality after two refills.
C8_Witness ==
    /\ now = 2 * IntervalTicks
    /\ successes = rate_limit_burst + 2
    /\ lastCall.made /\ ~lastCall.force /\ lastCall.ok

C10_ForcedFloorsAtZero ==
    (lastCall.made /\ lastCall.force) =>
        /\ lastCall.ok
        /\ lastCall.after = IF lastCall.refilled >= 1 THEN lastCall.refilled - 1 ELSE 0

(***************************************************************************)
(*                    PROPERTIES OF THE TEXT FUNCTIONS                     *)
(***************************************************************************)

\* the indices of text at which a sentence-ending mark starts
MarkStarts(text) ==
    {p \in 0..(Len(text) - 1) :
        \E k \in DOMAIN SENTENCE_ENDERS : MatchAt(text, SENTENCE_ENDERS[k], p)}

\* what is left of text after deleting everything up to and including the
\* character at index p, and the whitespace that follows
After(text, p) == LStrip(SliceFrom(text, p + 1))

\* text without its whitespace
NonWs(text) == SelectSeq(text, LAMBDA c : c \notin Whitespace)

RECURSIVE Concat(_)
\* the texts of a sequence, joined in order
Concat(texts) ==
    IF texts = << >> THEN << >> ELSE Head(texts) \o Concat(Tail(texts))

\* suffix is text[len(text) - len(suffix):]
IsSuffix(suffix, text) ==
    /\ Len(suffix) <= Len(text)
    /\ SliceFrom(text, Len(text) - Len(suffix)) = suffix

\* C16: _truncate_text(text, n) returns text unchanged when it fits; otherwise
\* it returns the longest remainder that fits among those left by deleting
\* everything up to and including a sentence-ending mark (and the whitespace
\* after it), the marks being taken from the earliest on; when no such
\* remainder fits before the marks run out, it returns the last n characters;
\* the result never exceeds n characters.
C16_TruncateDeletesLeadingSentences ==
    textOp = "truncate" =>
        LET r    == textOut[1]
            fits == {p \in MarkStarts(textIn) : Len(After(textIn, p)) <= maxIn}
        IN  /\ Len(r) <= maxIn
            /\ Len(textIn) <= maxIn => r = textIn
            /\ (Len(textIn) > maxIn /\ fits # {}) =>
                  \E p \in fits :
                      /\ r = After(textIn, p)
                      /\ \A q \in fits : p <= q
            /\ (Len(textIn) > maxIn /\ fits = {}) =>
                  r = SliceFrom(textIn, Len(textIn) - maxIn)

\* C16 witness: the first two sentences of a text of three were deleted.
C16_Witness ==
    /\ textOp = "truncate"
    /\ textIn = <<"a", ".", "b", ".", "a">>
    /\ maxIn = 2
    /\ textOut = << <<"a">> >>

\* C17: for every text longer than max_length, _truncate_text returns a
\* non-empty suffix of the text (which therefore ends with its last character).
C17_TruncateKeepsTail ==
    (textOp = "truncate" /\ Len(textIn) > maxIn) =>
        /\ textOut[1] # << >>
        /\ IsSuffix(textOut[1], textIn)

\* C18: truncating the result of a truncation again, with the same max_length,
\* returns it unchanged.
C18_TruncateIdempotent ==
    textOp = "truncate2" => textOut[2] = textOut[1]

\* C18 witness: a text that was really shortened, to a result that still
\* holds a mark, and then truncated again.
C18_Witness ==
    /\ textOp = "truncate2"
    /\ Len(textIn) > maxIn
    /\ MarkStarts(textOut[1]) # {}
    /\ Len(textOut[1]) = maxIn

\* C19: the pages of _split_text_into_pages, joined in order, hold the
\* characters of the text that are not whitespace, all of them, once each and
\* in the order of the text.
C19_PagesReproduceText ==
    textOp = "split" => NonWs(Concat(textOut)) = NonWs(textIn)

\* C19 witness: three pages, one cut after a mark, one cut at the length
\* limit, with whitespace dropped at a cut.
C19_Witness ==
    /\ textOp = "split"
    /\ textIn = <<".", " ", "b", "a", "b">>
    /\ maxIn = 2
    /\ textOut = << <<".">>, <<"b", "a">>, <<"b">> >>

(***************************************************************************)
(*              PROPERTIES OF THE DISPATCHER: WHAT IS SENT                 *)
(***************************************************************************)

\* the _send_single_message calls made for send_text call c
Entries(c) == {k \in DOMAIN wire : wire[k].call = c}

\* call c sent an input message
InputSent(c) == \E k \in Entries(c) : wire[k].input

\* call c sent a typing message
TypingSent(c) == Entries(c) # {}

\* calls i .. i + 4 are five calls of a burst: the first found the bucket full
\* and the last came less than interval * (burstCapacity - 1) after the first
FiveInBurst(i) ==
    /\ i + 4 <= Len(arrivals)
    /\ arrivals[i].refilled = rate_limit_burst
    /\ arrivals[i + 4].at - arrivals[i].at < IntervalTicks * (rate_limit_burst - 1)

\* C11 as claimed: of five ongoing calls of a burst exactly two send an input
\* message, and each of the other three sends no text but a typing message.
C11_BurstOthersSendTyping ==
    \A i \in DOMAIN arrivals :
        FiveInBurst(i) =>
            /\ Cardinality({c \in i..(i + 4) : InputSent(c)}) = 2
            /\ \A c \in i..(i + 4) : ~InputSent(c) => TypingSent(c)

\* C11 amended: of five ongoing calls of a burst exactly two (the first two)
\* send, one typing and one input message each, and each of the other three
\* sends nothing, neither an input nor a typing message.
C11_BurstOthersSendNothing ==
    \A i \in DOMAIN arrivals :
        FiveInBurst(i) =>
            /\ {c \in i..(i + 4) : InputSent(c)} = {i, i + 1}
            /\ \A c \in {i, i + 1} : Cardinality(Entries(c)) = 1 /\ TypingSent(c)
            /\ \A c \in (i + 2)..(i + 4) : Entries(c) = {}

\* C11 witness: five calls spread over the window; the bucket is empty, the
\* first two were sent and the last three were dropped.
C11_Witness ==
    /\ Len(arrivals) = 5
    /\ FiveInBurst(1)
    /\ arrivals[1].at < arrivals[3].at
    /\ arrivals[3].at < arrivals[5].at
    /\ Len(wire) = 2
    /\ ~calls[5].passed
    /\ tokens = 0

\* the step is a send_text call with ongoing = False
FinalCallStep ==
    /\ Len(calls') = Len(calls) + 1
    /\ ~calls'[Len(calls')].ongoing

\* C12: a send_text call with ongoing = False is never held back by the rate
\* limit, whatever the token count: it sends its message in the call, or enters
\* the pagination flow; and it leaves _tokens and _last_refill_time unchanged.
C12_FinalBypassesBucket ==
    /\ [](\A c \in DOMAIN calls : ~calls[c].ongoing => calls[c].passed)
    /\ [][FinalCallStep =>
            /\ tokens' = tokens
            /\ last_refill_time' = last_refill_time
            /\ \/ /\ Len(wire') = Len(wire) + 1
                  /\ wire'[Len(wire')].call = Len(calls')
               \/ /\ Len(jobs') = Len(jobs) + 1
                  /\ jobs'[Len(jobs')].call = Len(calls')
               \/ calls'[Len(calls')].pc \in {"waitLock", "awaitCancel"}]_vars

\* C12 witness: two ongoing calls emptied the bucket, and a final call made
\* with no token left sent its message; the bucket is still empty.
C12_Witness ==
    /\ Len(calls) = 3
    /\ calls[1].ongoing /\ calls[2].ongoing /\ ~calls[3].ongoing
    /\ tokens = 0
    /\ now = 0
    /\ Len(wire) = 3
    /\ wire[3].call = 3 /\ ~wire[3].ongoing

\* send_text call c is one that paginates by the claim: pagination is enabled,
\* the text is final and longer than MAX_LENGTH
Paginates(cs, c) ==
    /\ enable_pagination
    /\ ~cs[c].ongoing
    /\ Len(InputTexts[cs[c].text]) > MAX_LENGTH

\* C13: only a final text longer than MAX_LENGTH, with pagination enabled, is
\* paginated; every other call that gets past the rate limit sends exactly one
\* message, whose text is _truncate_text(text, MAX_LENGTH) and whose ongoing
\* flag is the caller's, and neither starts nor cancels a pagination job.
C13_PaginatesOnlyLongFinals ==
    /\ [](\A j \in DOMAIN jobs : Paginates(calls, jobs[j].call))
    /\ [](\A k \in DOMAIN wire : (wire[k].page > 0) <=> Paginates(calls, wire[k].call))
    /\ [](\A c \in DOMAIN calls :
            (calls[c].passed /\ ~Paginates(calls, c)) =>
                /\ Cardinality(Entries(c)) = 1
                /\ \A k \in Entries(c) :
                      /\ wire[k].text = TruncatedOf[calls[c].text]
                      /\ wire[k].ongoing = calls[c].ongoing)
    /\ [][(Len(calls') = Len(calls) + 1 /\ ~Paginates(calls', Len(calls'))) =>
            /\ jobs' = jobs
            /\ pagination_task' = pagination_task
            /\ lock' = lock]_vars

\* C13 witness: with pagination enabled and a three-page delivery in progress,
\* an over-length ongoing text and a final text that fits were each sent as one
\* message, and the delivery was not cancelled.
C13_Witness ==
    /\ enable_pagination
    /\ Len(calls) = 3
    /\ calls[1].text = 2 /\ ~calls[1].ongoing
    /\ calls[2].text = 3 /\ calls[2].ongoing /\ calls[2].passed
    /\ calls[3].text = 1 /\ ~calls[3].ongoing
    /\ Len(jobs) = 1 /\ jobs[1].pc = "sleeping" /\ ~jobs[1].cancelled
    /\ Len(wire) = 3
    /\ wire[1].page = 1 /\ wire[2].call = 2 /\ wire[3].call = 3
    /\ Len(wire[2].text) = MAX_LENGTH

\* C14: the typing message of a send carries true when the unit is an ongoing
\* text or a page that is not the last of its delivery, and false when it is a
\* single final message or the last page.
C14_TypingUntilTerminalUnit ==
    \A k \in DOMAIN wire :
        wire[k].input =>
          (wire[k].typing <=>
            (wire[k].ongoing \/ (wire[k].page > 0 /\ wire[k].page < wire[k].total)))

\* C15: an exception of the client in a send never leaves _send_single_message:
\* no send_text call and no pagination job ends with an exception, the call
\* that was sending returns, and the job that was sending goes on to its next
\* page as after a send that worked.
C15_SendErrorsAreContained ==
    /\ [](\A c \in DOMAIN calls : calls[c].pc # "failed")
    /\ [](\A j \in DOMAIN jobs : jobs[j].pc # "failed")
    /\ [][(Len(wire') = Len(wire) + 1 /\ lastFault' # "none") =>
            LET e == wire'[Len(wire')]
            IN  IF e.page = 0
                  THEN /\ e.call = Len(calls')
                       /\ calls'[e.call].pc = "done"
                  ELSE \E j \in DOMAIN jobs :
                          /\ jobs[j].call = e.call
                          /\ jobs'[j].next = e.page + 1
                          /\ jobs'[j].pc = IF e.page < e.total THEN "sleeping" ELSE "done"]_vars

\* C15 witness: the client has just raised at the input message of page 2 of
\* a three-page delivery, after a later send_text call had sent its message;
\* the job is asleep before page 3 and every call has returned.
C15_Witness ==
    /\ lastFault = "input"
    /\ Len(calls) = 2
    /\ Len(wire) = 3
    /\ wire[1].page = 1 /\ wire[1].total = 3
    /\ wire[2].call = 2
    /\ wire[3].page = 2 /\ wire[3].call = 1
    /\ jobs[1].pc = "sleeping" /\ jobs[1].next = 3
    /\ \A c \in DOMAIN calls : calls[c].pc = "done"

RECURSIVE Bodies(_)
\* the texts of page messages without their "[i/total] " markers, joined
Bodies(entries) ==
    IF entries = << >> THEN << >>
    ELSE LET e == Head(entries)
         IN  SliceFrom(e.text, Len(Marker(e.page, e.total))) \o Bodies(Tail(entries))

\* the page messages of job j, in the order they were sent
PagesSent(j) == SelectSeq(wire, LAMBDA e : e.call = jobs[j].call /\ e.page > 0)

\* C20: when a paginated delivery ran to its end without being cancelled, the
\* bodies of its messages, joined in order, hold every character of the text
\* that is not whitespace, in order.
C20_DeliveryShowsWholeText ==
    \A j \in DOMAIN jobs :
        (jobs[j].pc = "done" /\ ~jobs[j].cancelled) =>
            NonWs(Bodies(PagesSent(j))) = NonWs(InputTexts[jobs[j].text])

(***************************************************************************)
(*                    SCENARIO A OF THE SPECIFICATION                      *)
(***************************************************************************)

\* "A. B. C. D. E." repeated until its length is 300
ScenarioA == InputTexts[2]

\* the index of the last "." among the MAX_LENGTH characters of text from
\* index start on, -1 when there is none
LastPeriodInWindow(text, start) ==
    LET ps == {p \in start..(Min(start + MAX_LENGTH, Len(text)) - 1) : text[p + 1] = "."}
    IN  IF ps = {} THEN -1 ELSE CHOOSE p \in ps : \A q \in ps : q <= p

\* the index of the first character after index p that is not whitespace
\* (the length of text when only whitespace follows)
NextStart(text, p) ==
    CHOOSE s \in (p + 1)..Len(text) :
        /\ s = Len(text) \/ text[s + 1] \notin Whitespace
        /\ \A q \in (p + 1)..(s - 1) : text[q + 1] \in Whitespace

\* where the three pages of the scenario begin when every cut falls directly
\* after the last period of the window
ScenarioStarts ==
    LET s2 == NextStart(ScenarioA, LastPeriodInWindow(ScenarioA, 0))
        s3 == NextStart(ScenarioA, LastPeriodInWindow(ScenarioA, s2))
    IN  <<0, s2, s3>>

\* the indices directly after the three pages: after the two cuts and at the
\* end of the text
ScenarioEnds ==
    << LastPeriodInWindow(ScenarioA, ScenarioStarts[1]) + 1,
       LastPeriodInWindow(ScenarioA, ScenarioStarts[2]) + 1,
       Len(ScenarioA) >>

ReceivedSince ==
    IF lastOp.conversation = 0 THEN << >>
    ELSE SubSeq(sessions[lastOp.conversation].log, lastOp.received + 1,
                Len(sessions[lastOp.conversation].log))

\* the latest call left the session it found in place and open
SessionKept ==
    /\ recognizer.conversation = lastOp.conversation
    /\ ~sessions[lastOp.conversation].closed

\* e is a frame of zeros that lasts longer than the configured silence duration
LongSilence(e) ==
    /\ e.op = "append" /\ e.zeros
    /\ e.samples * 1000 > recognizer.turn_detection_silence_duration_ms * SAMPLE_RATE

\* some session received a commit
Committed == \E n \in DOMAIN sessions : \E i \in DOMAIN sessions[n].log : sessions[n].log[i] = Commit

\* what a pause that is not skipped does to the session it found
PauseActs ==
    /\ SessionKept
    /\ ~lastOp.raised
    /\ recognizer.paused
    /\ IF recognizer.enable_turn_detection
         THEN Len(ReceivedSince) = 1 /\ LongSilence(ReceivedSince[1])
         ELSE ReceivedSince = <<Commit>>

\* C25 as stated: every pause of the qwen recognizer on a started session
\* keeps the session open and does exactly one of two things: with turn
\* detection it appends one frame of zeros longer than the silence duration
\* and does not commit; without, it commits and appends no audio.  No session
\* with turn detection ever receives a commit.
C25_PauseSilenceOrCommit ==
    backend = "qwen" =>
        /\ (lastOp.fn = "pause" /\ lastOp.conversation # 0) => PauseActs
        /\ recognizer.enable_turn_detection => ~Committed

\* C25 amended: a pause on a started session that is not paused already does
\* exactly one of the two things; a pause on a session that is paused already
\* does nothing; both keep the session open.  No session with turn detection
\* ever receives a commit, from pause or from stop.
C25_PauseUnlessPaused ==
    backend = "qwen" =>
        /\ (lastOp.fn = "pause" /\ lastOp.conversation # 0 /\ ~lastOp.paused) => PauseActs
        /\ (lastOp.fn = "pause" /\ lastOp.conversation # 0 /\ lastOp.paused) =>
               /\ SessionKept /\ ~lastOp.raised /\ recognizer.paused
               /\ ReceivedSince = << >>
        /\ recognizer.enable_turn_detection => ~Committed

\* a pause on a started session with turn detection and a silence duration of
\* 800 ms appended one second of zeros
C25_Witness ==
    /\ backend = "qwen" /\ lastOp.fn = "pause" /\ lastOp.conversation # 0 /\ ~lastOp.paused
    /\ recognizer.enable_turn_detection
    /\ recognizer.turn_detection_silence_duration_ms = VAD_SILENCE_DURATION_MS
    /\ ReceivedSince = <<Audio(TRUE, SAMPLE_RATE)>>

\* C26: on the qwen recognizer, send_audio_frame on a paused recognizer
\* appends nothing, raises nothing and changes nothing; resume clears the
\* paused flag and does nothing else; send_audio_frame on a session that is
\* not paused appends the frame.
C26_PausedSendIsNoOp ==
    backend = "qwen" =>
        /\ (lastOp.fn = "send_audio_frame" /\ lastOp.paused) =>
               /\ ~lastOp.raised /\ ReceivedSince = << >>
               /\ recognizer.paused /\ recognizer.conversation = lastOp.conversation
        /\ lastOp.fn = "resume" =>
               /\ ~lastOp.raised /\ ReceivedSince = << >>
               /\ ~recognizer.paused /\ recognizer.conversation = lastOp.conversation
        /\ (lastOp.fn = "send_audio_frame" /\ ~lastOp.paused /\ lastOp.conversation # 0) =>
               /\ ~lastOp.raised /\ Len(ReceivedSince) = 1
               /\ ReceivedSince[1].op = "append" /\ ReceivedSince[1].samples = BLOCK_SIZE

\* start, pause, then a frame: the session holds the silence of the pause only
C26_Witness ==
    /\ backend = "qwen" /\ lastOp.fn = "send_audio_frame" /\ lastOp.paused
    /\ lastOp.conversation # 0 /\ lastOp.n = 3
    /\ Len(sessions[lastOp.conversation].log) = 1
    /\ recognizer.enable_turn_detection

(***************************************************************************)
(*                       PROPERTIES OF THE SESSION                         *)
(***************************************************************************)

RECURSIVE CountIn(_, _)
\* the number of entries of the log that are e
CountIn(log, e) ==
    IF log = << >> THEN 0
    ELSE (IF Head(log) = e THEN 1 ELSE 0) + CountIn(Tail(log), e)

RECURSIVE MicFramesIn(_)
\* the number of microphone frames the sessions ses received
MicFramesIn(ses) ==
    IF ses = << >> THEN 0
    ELSE CountIn(Head(ses).log, MicFrame) + MicFramesIn(Tail(ses))

\* the frames of the capture loop that are on their way to the recognizer
SendsInFlight ==
    LET sends == {c \in BagToSet(pool) : c.point = "send" /\ ~c.done}
    IN  IF sends = {} THEN 0 ELSE BagCardinality([c \in sends |-> pool[c]])

\* the frames the capture loop read while recognition_active was set
ReadWhileActive == {i \in DOMAIN frames : frames[i].ok /\ frames[i].active}

\* C22: the capture loop hands a frame to the recognizer only if
\* recognition_active was set when the loop had read it, and the frames that
\* reached the backend or are on their way to it are never more than the
\* frames read while the flag was set: a discarded frame is not sent later.
C22_ForwardsOnlyFramesReadWhileActive ==
    /\ \A i \in DOMAIN frames : frames[i].forwarded => (frames[i].ok /\ frames[i].active)
    /\ MicFramesIn(sessions) + SendsInFlight <= Cardinality(ReadWhileActive)

\* the first frame was read while inactive and discarded, the second was read
\* while active and is the only one the backend received
C22_Witness ==
    /\ Len(frames) = 2
    /\ frames[1].ok /\ ~frames[1].active /\ ~frames[1].forwarded
    /\ frames[2].ok /\ frames[2].active /\ frames[2].forwarded
    /\ MicFramesIn(sessions) = 1

\* C30: in a run without Ctrl+C, the capture loop does not end at a frame
\* whose read failed or whose send raised: after such a frame it is still in
\* its loop.
C30_FailedFrameKeepsLoop ==
    (frames # << >> /\ (~frames[Len(frames)].ok \/ frames[Len(frames)].raised)) =>
        capture # "ended"

FramesBefore(log, i) == {j \in 1..(i - 1) : log[j].op = "append" /\ log[j].samples > 0}

\* C24: with the dashscope backend, a session that received a stop request
\* received at least one audio frame that is not empty before it.
C24_StopPrecededByFrame ==
    backend = "dashscope" =>
        \A n \in DOMAIN sessions : \A i \in DOMAIN sessions[n].log :
            sessions[n].log[i] = Close => FramesBefore(sessions[n].log, i) # {}

\* the calls of a method that the pool holds
InFlight(fn) == {c \in BagToSet(pool) : MethodAt(c.point) = fn}

\* the state of the session as the flags of main.py and the calls in flight
\* show it
\*   Idle     : not active, not started, no start in flight
\*   Starting : not active, not started, recognizer.start in flight
\*   Stopping : active or started, recognizer.stop in flight
\*   Active   : recognition_active, no stop in flight
\*   Paused   : not active, recognition_started, no stop in flight
\* A stop of a session that is Idle leaves it Idle, and a start of a session
\* that is Paused leaves it Paused until it returns.
SessionState ==
    IF ~recognition_active /\ ~recognition_started
      THEN IF InFlight("start") # {} THEN "Starting" ELSE "Idle"
      ELSE IF InFlight("stop") # {} THEN "Stopping"
      ELSE IF recognition_active THEN "Active" ELSE "Paused"

\* Idle -> Starting -> Active <-> Paused -> Stopping -> Idle
Edges ==
    {<<"Idle", "Starting">>, <<"Starting", "Active">>, <<"Active", "Paused">>,
     <<"Paused", "Active">>, <<"Paused", "Stopping">>, <<"Stopping", "Idle">>}

\* C27: every step that changes the state of the session follows an edge of
\* Idle -> Starting -> Active <-> Paused -> Stopping -> Idle.
C27_SessionFollowsEdges ==
    [][SessionState' # SessionState => <<SessionState, SessionState'>> \in Edges]_vars

\* the calls of start, stop, pause or resume that raised and whose coroutine
\* resumes in this step
SwallowedNow ==
    {c \in BagToSet(pool) : /\ c.done /\ c.raised
                            /\ MethodAt(c.point) \in {"start", "stop", "pause", "resume"}
                            /\ CopiesIn(c, pool') < CopiesIn(c, pool)}

\* C28: when a coroutine resumes from a start, stop, pause or resume that
\* raised, it leaves recognition_active unset.
C28_RaisedCallEndsInactive ==
    [][SwallowedNow # {} => ~recognition_active']_vars

\* the starts and resumes that have not run yet
StartsPending == {c \in BagToSet(pool) : MethodAt(c.point) \in {"start", "resume"} /\ ~c.done}

\* C29: before the shutdown, when the latest request is an unmute that found
\* the session inactive and the recognizer without a session, and the start or
\* resume it asked for has run and returned as the latest event at the
\* recognizer, the recognizer has an open session: frames are accepted again.
C29_UnmuteWithoutSessionOpensOne ==
    (/\ mainpc = "wait"
     /\ lastReq.kind = "start" /\ ~lastReq.active /\ ~lastReq.open
     /\ StartsPending = {}
     /\ lastOp.fn \in {"start", "resume"} /\ ~lastOp.raised) =>
        (recognizer.conversation # 0 /\ ~sessions[recognizer.conversation].closed)

(***************************************************************************)
(*                        PROPERTIES OF THE REFILL                         *)
(***************************************************************************)

\* this step is an ongoing send_text call of a burst: it calls _can_send
BurstCallStep == Len(arrivals') = Len(arrivals) + 1

\* the tokens the refill of this step's call added
AddedNow == arrivals'[Len(arrivals')].refilled - tokens

\* C33: the refill of a call adds floor(elapsed / interval) tokens, capped at
\* the free capacity; when the bucket is below capacity after the refill, the
\* refill time advances by exactly added * interval, so that the elapsed time
\* below one interval stays counted; hence a call that comes at least one
\* interval after the refill time and finds the bucket below capacity gains a
\* token, whatever calls were made in between.
C33_RefillCarriesRemainder ==
    [][BurstCallStep =>
        LET elapsed == now - last_refill_time
        IN  /\ AddedNow = Min(elapsed \div IntervalTicks, rate_limit_burst - tokens)
            /\ arrivals'[Len(arrivals')].refilled < rate_limit_burst =>
                   last_refill_time' = last_refill_time + AddedNow * IntervalTicks
            /\ (tokens < rate_limit_burst /\ elapsed >= IntervalTicks) => AddedNow >= 1]_vars

\* C33 witness: a call found the bucket empty and gained nothing; the next
\* call, less than one interval later, gained a token, and the refill time
\* moved by one interval, to a time before that call.
C33_Witness ==
    \E i \in DOMAIN arrivals :
        /\ i + 1 = Len(arrivals)
        /\ arrivals[i].refilled = 0
        /\ arrivals[i + 1].refilled = 1
        /\ arrivals[i + 1].at > arrivals[i].at
        /\ arrivals[i + 1].at - arrivals[i].at < IntervalTicks
        /\ last_refill_time < arrivals[i + 1].at
        /\ now = arrivals[i + 1].at

\* the ongoing send_text calls that got past the rate limit
OngoingPassed == {c \in DOMAIN calls : calls[c].ongoing /\ calls[c].passed}

\* C32: send_text runs from its start through _can_send without an await, so
\* the refill, the test and the decrement of a call are one step of the event
\* loop, whichever threads produced the calls: an ongoing call passes exactly
\* when its refill left a token, the count never falls below zero, and the
\* calls that passed plus the tokens left never exceed the tokens made
\* available so far (the burst capacity and one per interval elapsed).
C32_ConcurrentCallsWithinTokens ==
    /\ tokens >= 0
    /\ \A c \in DOMAIN arrivals : calls[c].passed <=> arrivals[c].refilled >= 1
    /\ Cardinality(OngoingPassed) + tokens <= rate_limit_burst + now \div IntervalTicks

\* C32 witness: more ongoing calls than the bucket holds arrive at the same
\* clock value; as many pass as there were tokens, the next one is blocked.
C32_Witness ==
    /\ Len(arrivals) = rate_limit_burst + 1
    /\ \A c \in DOMAIN arrivals : arrivals[c].at = now
    /\ arrivals[1].refilled = rate_limit_burst
    /\ OngoingPassed = 1..rate_limit_burst
    /\ ~calls[rate_limit_burst + 1].passed
    /\ tokens = 0

(***************************************************************************)
(*              PROPERTIES OF THE DISPATCHER: ORDER ON THE WIRE            *)
(***************************************************************************)

\* the position on the wire of the first message sent for send_text call c
FirstEntry(c) == CHOOSE k \in Entries(c) : \A m \in Entries(c) : k <= m

\* C31: of two send_text calls that both sent something, the one invoked
\* first sent its first message first.
C31_WireFollowsInvocationOrder ==
    \A c1 \in DOMAIN calls : \A c2 \in DOMAIN calls :
        (c1 < c2 /\ Entries(c1) # {} /\ Entries(c2) # {}) =>
            FirstEntry(c1) < FirstEntry(c2)

\* the positions on the wire of the pages job j sent, in the order sent
PagesOnWire(j) ==
    LET own == {i \in PageEntries : wire[i].call = jobs[j].call}
    IN  [k \in 1..Cardinality(own) |->
            CHOOSE i \in own : Cardinality({m \in own : m <= i}) = k]

\* C34: the pages a job sent are pages 1, 2, ... of its text in this order,
\* each behind its marker "[i/total] "; the job sleeps only between two pages
\* (after page i it has slept i - 1 times, and after the last page it is
\* done); a job cancelled in a sleep sends no page after the cancellation,
\* and the pages it had sent stay on the wire.
C34_PagesInOrderWithIntervals ==
    \A j \in DOMAIN jobs :
        LET sent == PagesOnWire(j)
        IN  /\ Len(sent) = jobs[j].next - 1
            /\ \A k \in DOMAIN sent :
                  LET e      == wire[sent[k]]
                      marker == Marker(k, TotalPages(j))
                  IN  /\ e.page = k /\ e.total = TotalPages(j)
                      /\ Slice(e.text, 0, Len(marker)) = marker
                      /\ e.sleeps = k - 1
            /\ jobs[j].pc = "sleeping" =>
                  (Len(sent) >= 1 /\ Len(sent) < TotalPages(j) /\ jobs[j].sleeps = Len(sent) - 1)
            /\ Len(sent) = TotalPages(j) =>
                  (jobs[j].pc = "done" /\ jobs[j].sleeps = TotalPages(j) - 1)
            /\ jobs[j].cancelled => Len(sent) = jobs[j].sentAtCancel

\* C34 witness: a job of three pages was cancelled in its sleep after page 1
\* and sent nothing more; the job that replaced it sent its two pages with
\* one interval between them and ended.
C34_Witness ==
    /\ Len(jobs) = 2
    /\ TotalPages(1) = 3 /\ jobs[1].cancelled /\ jobs[1].sentAtCancel = 1
    /\ Len(PagesOnWire(1)) = 1
    /\ TotalPages(2) = 2 /\ jobs[2].pc = "done" /\ jobs[2].sleeps = 1
    /\ Len(PagesOnWire(2)) = 2
    /\ PagesOnWire(1)[1] < PagesOnWire(2)[1]

(***************************************************************************)
(*                      PROPERTIES OF THE PAGE CUTS                        *)
(***************************************************************************)

\* the leading window of max_length characters of text
Window(text, max_length) == Slice(text, 0, max_length)

\* the largest index of the window at which a mark starts
RightmostMark(text, max_length) ==
    CHOOSE p \in MarkStarts(Window(text, max_length)) :
        \A q \in MarkStarts(Window(text, max_length)) : q <= p

\* the pages returned are: text[:cut] stripped, followed by what the function
\* makes of the rest, text[rest:] without its leading whitespace
CutAt(pages, text, max_length, cut, rest) ==
    LET remaining == LStrip(SliceFrom(text, rest))
    IN  /\ pages # << >>
        /\ Head(pages) = Strip(Slice(text, 0, cut))
        /\ Tail(pages) = IF remaining = << >> THEN << >>
                         ELSE SplitTextIntoPages(remaining, max_length)

\* C35: _split_text_into_pages(s, n) returns the one page s when len(s) <= n;
\* when s is longer and its leading window of n characters holds a mark, the
\* first page ends with the rightmost mark of the window and the other pages
\* are those of the text behind that mark (so the same holds of every later
\* page); no page is longer than n.
C35_CutAtRightmostMark ==
    textOp = "split" =>
        /\ Len(textIn) <= maxIn => textOut = <<textIn>>
        /\ \A i \in DOMAIN textOut : Len(textOut[i]) <= maxIn
        /\ (Len(textIn) > maxIn /\ MarkStarts(Window(textIn, maxIn)) # {}) =>
              LET p == RightmostMark(textIn, maxIn)
              IN  CutAt(textOut, textIn, maxIn, p + 1, p + 1)

\* C35 witness: the window holds a period and, right of it, a comma; the page
\* is cut behind the comma.
C35_Witness ==
    /\ textOp = "split"
    /\ textIn = <<"a", ".", "a", ",", "a">>
    /\ maxIn = 4
    /\ textOut = << <<"a", ".", "a", ",">>, <<"a">> >>

\* C36: when s is longer than n and its leading window holds no mark, the
\* first page is cut at the last space of the window if that space is at index
\* >= 0.5 * n, and at exactly n characters otherwise; the other pages are
\* those of the rest of the text.
C36_SpaceCutFromHalf ==
    (textOp = "split" /\ Len(textIn) > maxIn /\ MarkStarts(Window(textIn, maxIn)) = {}) =>
        LET last_space == RFind(Window(textIn, maxIn), <<" ">>)
        IN  IF last_space # -1 /\ 2 * last_space >= maxIn
              THEN CutAt(textOut, textIn, maxIn, last_space, last_space)
              ELSE CutAt(textOut, textIn, maxIn, maxIn, maxIn)

(***************************************************************************)
(*                       PROPERTIES OF THE SHUTDOWN                        *)
(***************************************************************************)

\* the capture task has ended, by itself or by cancellation
CaptureGone == capture \in {"ended", "cancelled"}

\* C37: once the stop signal is set the capture task ends; once it has ended
\* it hands no frame to the recognizer; the shutdown reaches its end, having
\* asked the backend to stop, and recognition_active is unset when main()
\* has returned.
C37_ShutdownEndsCaptureAndSession ==
    /\ stop_event ~> CaptureGone
    /\ [][CaptureGone => (capture' = capture /\ frames' = frames)]_vars
    /\ stop_event ~> (mainpc = "exited")
    /\ [](mainpc = "final_stop" =>
            \E c \in BagToSet(pool) : c.who = MainTask /\ c.point = "stop")
    /\ [](mainpc = "exited" => ~recognition_active)

(***************************************************************************)
(*               PROPERTIES OF THE FLAG AND OF THE CALLS                   *)
(***************************************************************************)

\* the calls of start, stop, pause and resume that the pool holds
LifecycleCalls ==
    {c \in BagToSet(pool) : MethodAt(c.point) \in {"start", "stop", "pause", "resume"}}

\* before the shutdown, no mute handler, no delayed stop and no call of
\* start, stop, pause or resume is in progress
Settled == mainpc = "wait" /\ Quiescent /\ LifecycleCalls = {}

\* the backend takes the frames handed to send_audio_frame: the recognizer
\* has a session that is open, and it is not paused
BackendAccepts ==
    /\ recognizer.conversation # 0
    /\ ~sessions[recognizer.conversation].closed
    /\ ~recognizer.paused

\* C38: whenever nothing is in progress, recognition_active is set exactly
\* when the backend has a started session that is not paused.
C38_FlagMirrorsBackend ==
    Settled => (recognition_active <=> BackendAccepts)

\* the calls of start, stop, pause and resume that are handed to the pool
\* and have not returned, each counted as often as the pool holds it
LifecycleCallsRunning ==
    LET running == {c \in LifecycleCalls : ~c.done}
        RECURSIVE Count(_)
        Count(S) == IF S = {} THEN 0
                    ELSE LET c == CHOOSE x \in S : TRUE
                         IN  CopiesIn(c, pool) + Count(S \ {c})
    IN  Count(running)

\* C39: at most one call of start, stop, pause or resume is handed to the
\* worker pool and not yet returned, at any time.
C39_LifecycleCallsSerialized == LifecycleCallsRunning <= 1

(***************************************************************************)
(*                    PROPERTIES OF THE PAUSED FLAG                        *)
(***************************************************************************)

\* the sessions that receive a frame of the microphone in this step
TakingFrame ==
    {n \in DOMAIN sessions :
        /\ Len(sessions'[n].log) = Len(sessions[n].log) + 1
        /\ sessions'[n].log[Len(sessions'[n].log)] = MicFrame}

\* C40: with the qwen backend no frame handed to send_audio_frame is
\* appended to the conversation while the paused flag is set, that is after
\* pause has set it and before resume or start clears it.
C40_NoFrameAfterPause ==
    [][(backend = "qwen" /\ TakingFrame # {}) => ~recognizer.paused]_vars

=============================================================================
